---- MODULE Spec2Model ----
(***************************************************************************)
(* A model of the Solana on-chain assistant's helper library               *)
(* (src/src/mastra/agents/solana-onchain-assistant/index.ts, the second,   *)
(* tool-exporting copy that starts at line 840): the retry wrapper, the    *)
(* chain data client, the market data client, the news aggregator and the  *)
(* risk scoring engine.                                                    *)
(*                                                                         *)
(* Every subsystem has its own variable and its own specification; a       *)
(* specification leaves the other subsystems' variables at their idle      *)
(* value.                                                                  *)
(***************************************************************************)
EXTENDS Integers, Sequences, FiniteSets, TLC

VARIABLES retry, tx, call, news, market

vars == <<retry, tx, call, news, market>>

Idle == [pc |-> "idle"]

\* ------------------------------------------------------------------------
\* Generic helpers
\* ------------------------------------------------------------------------

Max(a, b) == IF a >= b THEN a ELSE b

Abs(x) == IF x < 0 THEN -x ELSE x

RECURSIVE SumSeq(_)
SumSeq(s) == IF s = <<>> THEN 0 ELSE Head(s) + SumSeq(Tail(s))

\* All sequences over S of length 0..n.
SeqsUpTo(S, n) == UNION {[1..k -> S] : k \in 0..n}

\* ------------------------------------------------------------------------
\* Retry wrapper: withRetry(operation, maxRetries = 3, delayMs = 1000)
\*
\* A frame is the activation of one withRetry call.  The operation's k-th
\* invocation either resolves with the value k or rejects with the error k,
\* so a value or an error names the invocation that produced it; 0 stands
\* for null (no error caught yet).
\* ------------------------------------------------------------------------

\* Largest retry budget explored (budgets range over -1..MaxBudget).
MaxBudget == 4

DefaultMaxRetries == 3

DefaultDelayMs == 1000

Budgets == -1..MaxBudget

Delays == {0, 1, DefaultDelayMs}

NullError == 0

\* Mutant: the loop runs while attempt < maxRetries (one attempt short).
RetryLoopCheckStrict(f) ==
    IF f.attempt < f.maxRetries
    THEN [f EXCEPT !.pc = "loop"]
    ELSE [f EXCEPT !.pc = "thrown", !.thrown = f.lastError]

\* The for-loop's condition  attempt <= maxRetries;  falling out of the loop
\* reaches  throw lastError.
RetryLoopCheck(f) ==
    IF f.attempt <= f.maxRetries
    THEN [f EXCEPT !.pc = "loop"]
    ELSE [f EXCEPT !.pc = "thrown", !.thrown = f.lastError]

\* Entry of withRetry: lastError = null, attempt = 1, first loop test.
RetryBegin(m, d) ==
    RetryLoopCheck([pc |-> "entry", maxRetries |-> m, delayMs |-> d,
                    attempt |-> 1, calls |-> 0, outcomes |-> <<>>,
                    waits |-> <<>>, lastError |-> NullError,
                    value |-> 0, thrown |-> NullError])

\* try { return await operation() : the operation is invoked.
RetryInvoke(f) == [f EXCEPT !.calls = @ + 1, !.pc = "awaitOp"]

\* The pending invocation settles: a resolution is returned at once; a
\* rejection is caught, recorded as lastError, and either breaks out of the
\* loop (attempt === maxRetries) or starts the backoff timer.
RetrySettle(f, ok) ==
    IF ok
    THEN [f EXCEPT !.pc = "returned", !.value = f.calls,
                   !.outcomes = Append(@, TRUE)]
    ELSE LET g == [f EXCEPT !.lastError = f.calls,
                            !.outcomes = Append(@, FALSE)]
         IN  IF g.attempt = g.maxRetries
             THEN [g EXCEPT !.pc = "thrown", !.thrown = g.lastError]
             ELSE [g EXCEPT !.pc = "backoff"]

\* Mutant: exponential backoff, delayMs * 2^(attempt - 1).
RetryDelayExponential(f) == f.delayMs * 2 ^ (f.attempt - 1)

\* The backoff a frame in "backoff" is waiting for: delayMs * attempt.
RetryDelay(f) == f.delayMs * f.attempt

\* The timer fires after delayMs * attempt; attempt++ and the loop test.
RetryWake(f) ==
    RetryLoopCheck([f EXCEPT !.waits = Append(@, RetryDelay(f)),
                             !.attempt = @ + 1])

\* One whole loop iteration: invoke, settle, and the backoff if there is one.
RetryAttempt(f, ok) ==
    LET s == RetrySettle(RetryInvoke(f), ok)
    IN  IF s.pc = "backoff" THEN RetryWake(s) ELSE s

\* withRetry run to completion against a script of the operation's outcomes
\* (script[k] is the outcome of the k-th invocation; invocations beyond the
\* script reject).
RECURSIVE RetryRunFrom(_, _)
RetryRunFrom(f, script) ==
    IF f.pc # "loop" THEN f
    ELSE RetryRunFrom(
             RetryAttempt(f, f.calls + 1 <= Len(script) /\ script[f.calls + 1]),
             script)

withRetry(script, m, d) == RetryRunFrom(RetryBegin(m, d), script)

\* --- actions of the retry wrapper ---

WithRetryCall ==
    /\ retry.pc = "idle"
    /\ \E m \in Budgets, d \in Delays : retry' = RetryBegin(m, d)
    /\ UNCHANGED <<tx, call, news, market>>

WithRetryInvoke ==
    /\ retry.pc = "loop"
    /\ retry' = RetryInvoke(retry)
    /\ UNCHANGED <<tx, call, news, market>>

WithRetryResolve ==
    /\ retry.pc = "awaitOp"
    /\ retry' = RetrySettle(retry, TRUE)
    /\ UNCHANGED <<tx, call, news, market>>

WithRetryReject ==
    /\ retry.pc = "awaitOp"
    /\ retry' = RetrySettle(retry, FALSE)
    /\ UNCHANGED <<tx, call, news, market>>

WithRetryWake ==
    /\ retry.pc = "backoff"
    /\ retry' = RetryWake(retry)
    /\ UNCHANGED <<tx, call, news, market>>

RetryInit ==
    /\ retry = Idle
    /\ tx = Idle
    /\ call = Idle
    /\ news = Idle
    /\ market = Idle

RetryNext ==
    \/ WithRetryCall
    \/ WithRetryInvoke
    \/ WithRetryResolve
    \/ WithRetryReject
    \/ WithRetryWake

SpecRetry == RetryInit /\ [][RetryNext]_vars

\* --- claims about the retry wrapper ---

RetryActive == retry.pc # "idle"

\* C1: with a budget of 3, an operation that fails twice and then succeeds
\* makes withRetry return the third invocation's value after exactly 3
\* invocations; an operation that always fails is invoked exactly 3 times and
\* the third failure's error is thrown.  For every budget the operation is
\* not invoked after its first success (a success is the last invocation)
\* and is invoked at most maxRetries times.
C1_RetryAttempts ==
    RetryActive =>
        /\ retry.calls <= Max(retry.maxRetries, 0)
        /\ \A k \in 1..Len(retry.outcomes) :
               retry.outcomes[k] =>
                   /\ k = Len(retry.outcomes)
                   /\ retry.calls = k
                   /\ retry.pc = "returned"
                   /\ retry.value = k
        /\ retry.maxRetries = DefaultMaxRetries =>
               /\ retry.outcomes = <<FALSE, FALSE, TRUE>> =>
                      retry.pc = "returned" /\ retry.value = 3 /\ retry.calls = 3
               /\ retry.outcomes = <<FALSE, FALSE, FALSE>> =>
                      retry.pc = "thrown" /\ retry.thrown = 3 /\ retry.calls = 3
               /\ retry.pc = "thrown" =>
                      retry.outcomes = <<FALSE, FALSE, FALSE>>

C1_Witness ==
    /\ RetryActive
    /\ retry.maxRetries = DefaultMaxRetries
    /\ retry.outcomes = <<FALSE, FALSE, TRUE>>
    /\ retry.pc = "returned"

\* C2: the k-th backoff of a call lasts delayMs * k; a backoff follows every
\* failed attempt but the last one of the budget, so a call that throws after
\* maxRetries failures has waited maxRetries - 1 times; with budget 3 and
\* delay 1000 an always-failing call waits 1000, then 2000, 3000 in all.
C2_LinearBackoff ==
    RetryActive =>
        /\ \A k \in 1..Len(retry.waits) : retry.waits[k] = retry.delayMs * k
        /\ retry.pc \in {"loop", "awaitOp"} =>
               Len(retry.waits) = Len(retry.outcomes)
        /\ retry.pc \in {"backoff", "returned"} =>
               Len(retry.waits) = Len(retry.outcomes) - 1
        /\ (retry.pc = "thrown" /\ retry.maxRetries >= 1) =>
               /\ Len(retry.outcomes) = retry.maxRetries
               /\ Len(retry.waits) = retry.maxRetries - 1
        /\ ( /\ retry.pc = "thrown"
             /\ retry.maxRetries = DefaultMaxRetries
             /\ retry.delayMs = DefaultDelayMs ) =>
               /\ retry.waits = <<1000, 2000>>
               /\ SumSeq(retry.waits) = 3000

C2_Witness ==
    /\ RetryActive
    /\ retry.pc = "thrown"
    /\ retry.maxRetries = DefaultMaxRetries
    /\ retry.delayMs = DefaultDelayMs
    /\ SumSeq(retry.waits) = 3000

\* ------------------------------------------------------------------------
\* Addresses and isValidSolanaAddress
\*
\* new PublicKey(address) decodes the string as base58 and requires 32
\* bytes; an address is described by what the constructor looks at.
\* ------------------------------------------------------------------------

PUBLIC_KEY_LENGTH == 32

Addresses ==
    [base58 : BOOLEAN, bytes : {0, PUBLIC_KEY_LENGTH - 1, PUBLIC_KEY_LENGTH,
                                PUBLIC_KEY_LENGTH + 1}]

\* new PublicKey(address) does not throw.
PublicKeyParses(a) == a.base58 /\ a.bytes = PUBLIC_KEY_LENGTH

\* Mutant: only the alphabet is checked, not the decoded length.
isValidSolanaAddressAlphabetOnly(a) == a.base58

isValidSolanaAddress(a) == PublicKeyParses(a)

ValidAddresses == {a \in Addresses : isValidSolanaAddress(a)}

\* ------------------------------------------------------------------------
\* Transactions: what the RPC node answers and the record built from it
\* ------------------------------------------------------------------------

LAMPORTS_PER_SOL == 1000000000

\* A blockTime of 0 stands for null: every use of a timestamp in the code is
\* a truthiness test or a subtraction guarded by one.
NullTime == 0

\* Keywords that may occur in the joined, lower-cased log messages.
LogKeywords == {"swap", "liquidity", "nft", "mint", "token", "transfer"}

\* tx.meta?.logMessages classification (first matching branch wins).
txType(t) ==
    IF ~t.meta \/ ~t.hasLogs THEN "Unknown"
    ELSE IF "swap" \in t.logs \/ "liquidity" \in t.logs THEN "DeFi"
    ELSE IF "nft" \in t.logs \/ "mint" \in t.logs THEN "NFT"
    ELSE IF "token" \in t.logs \/ "transfer" \in t.logs THEN "Token Transfer"
    ELSE "Unknown"

\* tx.meta?.postBalances?.[0] ? (post[0] - pre[0]) / LAMPORTS_PER_SOL : 0.
\* pre0 and post0 hold the balances in whole SOL (k stands for
\* k * LAMPORTS_PER_SOL lamports), so the quotient is their difference; a
\* post balance of 0 is falsy and yields 0 whatever the pre balance.
txAmount(t) ==
    IF t.meta /\ t.post0 # 0 THEN t.post0 - t.pre0 ELSE 0

txStatus(t) == IF t.meta /\ t.err THEN "Failed" ELSE "Success"

\* staticAccountKeys without the queried key.
txProgramIds(t) == SelectSeq(t.keys, LAMBDA k : k # "self")

\* The record for a signature whose getTransaction resolved with null.
NotFoundRecord(sig) ==
    [signature |-> sig.signature, timestamp |-> sig.blockTime,
     type |-> "Unknown", amount |-> 0, programIds |-> <<>>,
     status |-> "Failed"]

\* The record the map callback returns for signature sig and response t
\* (t.found = FALSE is the null response).
TxRecord(sig, t) ==
    IF ~t.found THEN NotFoundRecord(sig)
    ELSE [signature |-> sig.signature, timestamp |-> sig.blockTime,
          type |-> txType(t), amount |-> txAmount(t),
          programIds |-> txProgramIds(t), status |-> txStatus(t)]

NullTx ==
    [found |-> FALSE, meta |-> FALSE, err |-> FALSE, hasLogs |-> FALSE,
     logs |-> {}, pre0 |-> 0, post0 |-> 0, keys |-> <<>>]

MkTx(err, logs, pre, post) ==
    [found |-> TRUE, meta |-> TRUE, err |-> err, hasLogs |-> TRUE,
     logs |-> logs, pre0 |-> pre, post0 |-> post, keys |-> <<"self", "prog">>]

\* Responses of getTransaction used by the step-by-step model.
TxSamples ==
    { NullTx,
      MkTx(FALSE, {"transfer"}, 1, 3),
      MkTx(TRUE, {"swap", "token"}, 2, 0) }

\* ------------------------------------------------------------------------
\* getRecentTransactions(walletAddress, limit = 10), step by step
\* ------------------------------------------------------------------------

\* Most signatures the node returns for one lookup in the step-by-step model.
MaxSigs == 2

DefaultLimit == 10

Limits == {1, DefaultLimit}

Min(a, b) == IF a <= b THEN a ELSE b

\* getSignaturesForAddress answers n signatures, newest first, dt seconds
\* apart (dt = 0: the node reports no block time).
SigList(n, dt) ==
    [i \in 1..n |->
        [signature |-> i,
         blockTime |-> IF dt = 0 THEN NullTime ELSE 1000 + (n - i) * dt]]

\* Mutant: Promise.all pairing results by completion order.
PromiseAllByCompletion(slots, order) ==
    [k \in 1..Len(order) |-> slots[order[k]]]

\* Promise.all of fulfilled promises: the values in the order of the
\* promises, whatever the order they settled in.
PromiseAll(slots, order) == slots

\* A completed call: the value returned or the error thrown.
Ok(v) == [kind |-> "ok", value |-> v, error |-> "none"]

Throw(e) == [kind |-> "throw", value |-> <<>>, error |-> e]

\* await Promise.all(signatures.map(...)): rejects when a callback's
\* withRetry has thrown, else resolves with the records.
TxFanOut(frames, slots, order) ==
    IF \E i \in 1..Len(frames) : frames[i].pc = "thrown"
    THEN Throw("network")
    ELSE Ok(PromiseAll(slots, order))

\* catch (error) { console.error(...); return []; }
CatchEmpty(r) == IF r.kind = "throw" THEN Ok(<<>>) ELSE r

\* What getRecentTransactions returns once the fan-out has settled.
TxOutcome(frames, slots, order) ==
    CatchEmpty(TxFanOut(frames, slots, order)).value

TxSettled(frames) ==
    \/ \E i \in 1..Len(frames) : frames[i].pc = "thrown"
    \/ \A i \in 1..Len(frames) : frames[i].pc = "returned"

Pending == [pending |-> TRUE]

TxCall ==
    /\ tx.pc = "idle"
    /\ \E a \in Addresses, lim \in Limits :
          tx' = IF ~isValidSolanaAddress(a)
                THEN [pc |-> "returned", addr |-> a, limit |-> lim,
                      sigFrame |-> Idle, sigs |-> <<>>, frames |-> <<>>,
                      slots |-> <<>>, order |-> <<>>, result |-> <<>>,
                      rpc |-> 0, failed |-> "InvalidAddress"]
                ELSE [pc |-> "sigs", addr |-> a, limit |-> lim,
                      sigFrame |-> RetryBegin(DefaultMaxRetries, DefaultDelayMs),
                      sigs |-> <<>>, frames |-> <<>>,
                      slots |-> <<>>, order |-> <<>>, result |-> <<>>,
                      rpc |-> 0, failed |-> "no"]
    /\ UNCHANGED <<retry, call, news, market>>

\* One attempt of getSignaturesForAddress rejects.
TxSignaturesReject ==
    /\ tx.pc = "sigs"
    /\ LET f == RetryAttempt(tx.sigFrame, FALSE)
       IN  tx' = IF f.pc = "thrown"
                 THEN [tx EXCEPT !.sigFrame = f, !.rpc = @ + 1,
                                 !.pc = "returned", !.result = <<>>,
                                 !.failed = "signatures"]
                 ELSE [tx EXCEPT !.sigFrame = f, !.rpc = @ + 1]
    /\ UNCHANGED <<retry, call, news, market>>

\* getSignaturesForAddress resolves; the map starts one withRetry per
\* signature and Promise.all waits for them (at once done for no signature).
TxSignaturesResolve ==
    /\ tx.pc = "sigs"
    /\ \E n \in 0..Min(tx.limit, MaxSigs), dt \in {0, 5} :
          LET sigs == SigList(n, dt)
              base == [tx EXCEPT
                         !.sigFrame = RetryAttempt(tx.sigFrame, TRUE),
                         !.rpc = @ + 1,
                         !.sigs = sigs,
                         !.frames = [i \in 1..n |->
                              RetryBegin(DefaultMaxRetries, DefaultDelayMs)],
                         !.slots = [i \in 1..n |-> Pending]]
          IN  tx' = IF n = 0
                    THEN [base EXCEPT !.pc = "returned",
                            !.result = TxOutcome(<<>>, <<>>, <<>>)]
                    ELSE [base EXCEPT !.pc = "details"]
    /\ UNCHANGED <<retry, call, news, market>>

\* What the function has returned once the fan-out settles (it has returned
\* already when an earlier rejection settled Promise.all).
TxAfterDetail(t) ==
    IF t.pc = "details" /\ TxSettled(t.frames)
    THEN [t EXCEPT !.pc = "returned",
                   !.result = TxOutcome(t.frames, t.slots, t.order),
                   !.failed = IF \E i \in 1..Len(t.frames) :
                                    t.frames[i].pc = "thrown"
                              THEN "details" ELSE "no"]
    ELSE t

\* One attempt of getTransaction for the i-th signature resolves with r.
\* The other callbacks keep running after Promise.all has rejected.
TxDetailResolve ==
    /\ tx.pc \in {"details", "returned"}
    /\ \E i \in 1..Len(tx.frames), r \in TxSamples :
          /\ tx.frames[i].pc = "loop"
          /\ tx' = TxAfterDetail(
                     [tx EXCEPT !.frames[i] = RetryAttempt(@, TRUE),
                                !.slots[i] = TxRecord(tx.sigs[i], r),
                                !.order = Append(@, i),
                                !.rpc = @ + 1])
    /\ UNCHANGED <<retry, call, news, market>>

\* One attempt of getTransaction for the i-th signature rejects.
TxDetailReject ==
    /\ tx.pc \in {"details", "returned"}
    /\ \E i \in 1..Len(tx.frames) :
          /\ tx.frames[i].pc = "loop"
          /\ tx' = TxAfterDetail(
                     [tx EXCEPT !.frames[i] = RetryAttempt(@, FALSE),
                                !.rpc = @ + 1])
    /\ UNCHANGED <<retry, call, news, market>>

TxInit == RetryInit

TxNext ==
    \/ TxCall
    \/ TxSignaturesReject
    \/ TxSignaturesResolve
    \/ TxDetailResolve
    \/ TxDetailReject

SpecTx == TxInit /\ [][TxNext]_vars

\* --- claims about getRecentTransactions ---

TxReturnedAfterLookup ==
    tx.pc = "returned" /\ tx.failed \notin {"InvalidAddress", "signatures"}

\* C4: once the signature lookup has succeeded, the value returned holds
\* one record per signature, the i-th record carrying the i-th signature,
\* and a signature whose detail fetch failed on every retry has the record
\* status "Failed", amount 0, type "Unknown".
C4_OneRecordPerSignature ==
    TxReturnedAfterLookup =>
        /\ Len(tx.result) = Len(tx.sigs)
        /\ \A i \in 1..Len(tx.sigs) :
              /\ tx.result[i].signature = tx.sigs[i].signature
              /\ tx.frames[i].pc = "thrown" =>
                    /\ tx.result[i].status = "Failed"
                    /\ tx.result[i].amount = 0
                    /\ tx.result[i].type = "Unknown"

\* The part of C4 the code does keep: when no detail fetch has failed, the
\* records are paired with the signatures by position.
C4_PositionalWhenAllResolve ==
    (tx.pc = "returned" /\ tx.failed = "no") =>
        /\ Len(tx.result) = Len(tx.sigs)
        /\ \A i \in 1..Len(tx.sigs) :
              tx.result[i].signature = tx.sigs[i].signature

\* ------------------------------------------------------------------------
\* The chain data client, one call at a time
\*
\* The functions below share no state, so a call is described by its
\* arguments and by what the RPC node answers (the "environment" of the
\* call), and yields the value returned or the error thrown together with
\* the number of RPC requests issued.
\* ------------------------------------------------------------------------

\* Outcome scripts of an operation under a budget of 3: success at the
\* first, second or third attempt, or three failures.
RetryScripts ==
    {<<TRUE>>, <<FALSE, TRUE>>, <<FALSE, FALSE, TRUE>>,
     <<FALSE, FALSE, FALSE>>}

ScriptsBrief == {<<TRUE>>, <<FALSE, FALSE, FALSE>>}

Retry3(script) == withRetry(script, DefaultMaxRetries, DefaultDelayMs)

\* --- getSolBalance ---

\* Balances in lamports the node may report.
LamportChoices == {0, 1, LAMPORTS_PER_SOL + LAMPORTS_PER_SOL \div 2}

\* lamports / LAMPORTS_PER_SOL, kept as a fraction.
Sol(lamports) == [num |-> lamports, den |-> LAMPORTS_PER_SOL, null |-> FALSE]

NullBalance == [num |-> 0, den |-> 1, null |-> TRUE]

getSolBalance(a, script, lamports) ==
    IF ~isValidSolanaAddress(a)
    THEN [out |-> Throw("Invalid Solana wallet address format"), rpc |-> 0]
    ELSE LET f == Retry3(script)
         IN  [out |-> IF f.pc = "returned" THEN Ok(Sol(lamports))
                      ELSE Ok(NullBalance),
              rpc |-> f.calls]

\* --- getTokenBalance ---

\* 10^n
RECURSIVE Pow10(_)
Pow10(n) == IF n = 0 THEN 1 ELSE 10 * Pow10(n - 1)

\* Parsed token accounts the node may report for (owner, mint): the raw
\* amount and the decimals of the first account, if there is one.
TokenAccountChoices ==
    { <<>>,
      <<[amount |-> 0, decimals |-> 6]>>,
      <<[amount |-> 2500000, decimals |-> 6]>>,
      <<[amount |-> 7, decimals |-> 0], [amount |-> 9, decimals |-> 0]>> }

\* Number(amount) / Math.pow(10, decimals), kept as a fraction.
TokenAmount(acc) ==
    [balance |-> [num |-> acc.amount, den |-> Pow10(acc.decimals)],
     decimals |-> acc.decimals]

ZeroTokenBalance == [balance |-> [num |-> 0, den |-> 1], decimals |-> 0]

\* Mutant: the mint argument is not validated before the lookup.
TokenBalanceBodyWalletOnly(w, m, rpcOk, accounts) ==
    IF ~isValidSolanaAddress(w)
    THEN [out |-> Throw("Invalid Solana wallet address format"), rpc |-> 0]
    ELSE IF ~rpcOk THEN [out |-> Throw("network"), rpc |-> 1]
    ELSE IF Len(accounts) = 0 THEN [out |-> Ok(ZeroTokenBalance), rpc |-> 1]
    ELSE [out |-> Ok(TokenAmount(accounts[1])), rpc |-> 1]

\* The try block of getTokenBalance.
TokenBalanceBody(w, m, rpcOk, accounts) ==
    IF ~isValidSolanaAddress(w)
    THEN [out |-> Throw("Invalid Solana wallet address format"), rpc |-> 0]
    ELSE IF ~isValidSolanaAddress(m)
    THEN [out |-> Throw("Invalid token mint address format"), rpc |-> 0]
    ELSE IF ~rpcOk THEN [out |-> Throw("network"), rpc |-> 1]
    ELSE IF Len(accounts) = 0 THEN [out |-> Ok(ZeroTokenBalance), rpc |-> 1]
    ELSE [out |-> Ok(TokenAmount(accounts[1])), rpc |-> 1]

\* catch (error) { console.error(...); return { balance: 0, decimals: 0 }; }
getTokenBalance(w, m, rpcOk, accounts) ==
    LET r == TokenBalanceBody(w, m, rpcOk, accounts)
    IN  IF r.out.kind = "throw"
        THEN [out |-> Ok(ZeroTokenBalance), rpc |-> r.rpc]
        ELSE r

\* --- getOnChainTokenData ---

MintInfo(state, supply, decimals, mintAuth, freezeAuth) ==
    [state |-> state, supply |-> supply, decimals |-> decimals,
     mintAuthority |-> mintAuth, freezeAuthority |-> freezeAuth]

\* What getParsedAccountInfo may answer: no account, an account without
\* parsed mint data, or a mint (an authority is TRUE when it is set).
MintInfos ==
    { MintInfo("noAccount", 0, 0, FALSE, FALSE),
      MintInfo("noParsed", 0, 0, FALSE, FALSE) }
    \cup { MintInfo("mint", sup, dec, ma, fa) :
             sup \in {0, 1000}, dec \in {0, 1}, ma \in BOOLEAN, fa \in BOOLEAN }

MintEnvs == [script : RetryScripts, info : MintInfos]

OnChainTokenData(info) ==
    [supply |-> info.supply, decimals |-> info.decimals,
     mintAuthority |-> info.mintAuthority,
     freezeAuthority |-> info.freezeAuthority]

\* Errors are logged and rethrown.
getOnChainTokenData(a, env) ==
    IF ~isValidSolanaAddress(a)
    THEN [out |-> Throw("Invalid token address format"), rpc |-> 0]
    ELSE LET f == Retry3(env.script)
         IN  IF f.pc # "returned"
             THEN [out |-> Throw("network"), rpc |-> f.calls]
             ELSE IF env.info.state = "noAccount"
             THEN [out |-> Throw("Token account not found"), rpc |-> f.calls]
             ELSE IF env.info.state = "noParsed"
             THEN [out |-> Throw("Invalid token data format"), rpc |-> f.calls]
             ELSE [out |-> Ok(OnChainTokenData(env.info)), rpc |-> f.calls]

\* --- getRecentTransactions, as one call ---

\* The environment of a call: the script of the signature lookup, the
\* number n of signatures reported (cut to the limit), their spacing dt in
\* seconds, and the transactions behind them: the first nErr failed on
\* chain, the first nXfer are plain transfers (the others swaps), each moves
\* sol SOL (or amounts[i] SOL), and the detail fetch of signature failAt (0: none) fails on every
\* attempt.
TxEnv(sigScript, n, dt, nErr, nXfer, failAt, sol) ==
    [sigScript |-> sigScript, n |-> n, dt |-> dt, nErr |-> nErr,
     nXfer |-> nXfer, failAt |-> failAt, sol |-> sol]

\* An environment may list the SOL moved by each transaction in amounts.
TxEnvTx(env, i) ==
    MkTx(i <= env.nErr,
         IF i <= env.nXfer THEN {"token", "transfer"} ELSE {"swap"},
         1,
         IF "amounts" \in DOMAIN env THEN 1 + env.amounts[i]
         ELSE 1 + env.sol)

TxEnvScript(env, i) ==
    IF i = env.failAt THEN <<FALSE, FALSE, FALSE>> ELSE <<TRUE>>

\* The try block of getRecentTransactions.
RecentTransactionsBody(a, limit, env) ==
    IF ~isValidSolanaAddress(a)
    THEN [out |-> Throw("Invalid Solana wallet address format"), rpc |-> 0]
    ELSE LET sf == Retry3(env.sigScript)
         IN  IF sf.pc # "returned"
             THEN [out |-> Throw("network"), rpc |-> sf.calls]
             ELSE
               LET n      == Min(env.n, limit)
                   sigs   == SigList(n, env.dt)
                   frames == [i \in 1..n |-> Retry3(TxEnvScript(env, i))]
                   slots  == [i \in 1..n |-> TxRecord(sigs[i], TxEnvTx(env, i))]
                   order  == [i \in 1..n |-> i]
               IN  [out |-> TxFanOut(frames, slots, order),
                    rpc |-> sf.calls
                            + SumSeq([i \in 1..n |-> frames[i].calls])]

getRecentTransactions(a, limit, env) ==
    LET r == RecentTransactionsBody(a, limit, env)
    IN  [out |-> CatchEmpty(r.out), rpc |-> r.rpc]

\* --- getTokenHoldersDistribution ---

\* UI balances of the largest accounts, largest first.
HolderBalanceChoices ==
    { <<>>,
      <<60, 5, 5, 5, 5, 5, 5, 5, 5, 5>>,
      <<30, 20, 20, 10>>,
      <<10, 10, 10, 10, 10, 10, 10, 10, 5, 5, 5, 5>>,
      <<5, 5>> }

\* getTokenLargestAccounts: the script of its retries and the accounts
\* (hasValue = FALSE: the response carries no value).
LargestEnvs ==
    [script : RetryScripts, hasValue : BOOLEAN, balances : HolderBalanceChoices]

\* (balance / totalSupply) * 100 with totalSupply = supply / 10^decimals,
\* as a fraction num / den of a percent.
Percentage(balance, data) ==
    [num |-> balance * 100 * Pow10(data.decimals), den |-> data.supply]

TokenHolder(i, balance, data) ==
    [address |-> i, balance |-> balance, percentage |-> Percentage(balance, data)]

\* Mutant: the zero-supply guard is missing.
TokenHoldersBodyNoSupplyGuard(a, lenv, menv) ==
    IF ~isValidSolanaAddress(a)
    THEN [out |-> Throw("Invalid token address format"), rpc |-> 0]
    ELSE LET f == Retry3(lenv.script)
         IN  IF f.pc # "returned"
             THEN [out |-> Throw("network"), rpc |-> f.calls]
             ELSE IF ~lenv.hasValue
             THEN [out |-> Throw("No token accounts found"), rpc |-> f.calls]
             ELSE LET d == getOnChainTokenData(a, menv)
                  IN  IF d.out.kind = "throw"
                      THEN [out |-> d.out, rpc |-> f.calls + d.rpc]
                      ELSE [out |-> Ok([i \in 1..Len(lenv.balances) |->
                                         TokenHolder(i, lenv.balances[i],
                                                     d.out.value)]),
                            rpc |-> f.calls + d.rpc]

\* The try block of getTokenHoldersDistribution.
TokenHoldersBody(a, lenv, menv) ==
    IF ~isValidSolanaAddress(a)
    THEN [out |-> Throw("Invalid token address format"), rpc |-> 0]
    ELSE LET f == Retry3(lenv.script)
         IN  IF f.pc # "returned"
             THEN [out |-> Throw("network"), rpc |-> f.calls]
             ELSE IF ~lenv.hasValue
             THEN [out |-> Throw("No token accounts found"), rpc |-> f.calls]
             ELSE LET d == getOnChainTokenData(a, menv)
                  IN  IF d.out.kind = "throw"
                      THEN [out |-> d.out, rpc |-> f.calls + d.rpc]
                      ELSE IF d.out.value.supply = 0
                      THEN [out |-> Ok(<<>>), rpc |-> f.calls + d.rpc]
                      ELSE [out |-> Ok([i \in 1..Len(lenv.balances) |->
                                         TokenHolder(i, lenv.balances[i],
                                                     d.out.value)]),
                            rpc |-> f.calls + d.rpc]

\* Mutant: the catch rethrows instead of returning [].
getTokenHoldersDistributionRethrow(a, lenv, menv) ==
    TokenHoldersBody(a, lenv, menv)

getTokenHoldersDistribution(a, lenv, menv) ==
    LET r == TokenHoldersBody(a, lenv, menv)
    IN  [out |-> CatchEmpty(r.out), rpc |-> r.rpc]

\* ------------------------------------------------------------------------
\* Risk scoring engine
\* ------------------------------------------------------------------------

SecondsPerDay == 86400

RiskTxLimit == 100

CountWhere(seq, P(_)) == Cardinality({i \in 1..Len(seq) : P(seq[i])})

\* transactions[0].timestamp - transactions[last].timestamp when there are
\* at least two transactions and both timestamps are truthy, else 0.
TimeSpan(txs) ==
    IF /\ Len(txs) > 1
       /\ txs[1].timestamp # NullTime
       /\ txs[Len(txs)].timestamp # NullTime
    THEN txs[1].timestamp - txs[Len(txs)].timestamp
    ELSE 0

\* Mutant: the low-activity branch does not return early.
TransactionPatternScoreNoEarlyReturn(txs) ==
    LET failed    == CountWhere(txs, LAMBDA t : t.status = "Failed")
        transfers == CountWhere(txs, LAMBDA t : t.type = "Token Transfer")
        p0 == Len(txs) < 10
        p1 == 5 * failed > Len(txs)
        p2 == 5 * transfers > 4 * Len(txs)
        p3 == TimeSpan(txs) > 0 /\ 10 * Len(txs) > TimeSpan(txs)
    IN  [score |-> Max(0, 100 - (IF p0 THEN 20 ELSE 0)
                             - (IF p1 THEN 20 ELSE 0)
                             - (IF p2 THEN 15 ELSE 0)
                             - (IF p3 THEN 10 ELSE 0)),
         factors |->
             (IF p0 THEN <<"Very few transactions found, indicating low activity.">>
                    ELSE <<>>)
          \o (IF p1 THEN <<"High rate of failed transactions">> ELSE <<>>)
          \o (IF p2 THEN <<"Suspicious transaction pattern: High concentration of simple transfers">>
                    ELSE <<>>)
          \o (IF p3 THEN <<"Unusual transaction frequency (very high)">>
                    ELSE <<>>)]

\* The scoring of analyzeTransactionPatterns on the list it fetched.
\*   failedTxs > length * 0.2            <=>  5 * failed > length
\*   transfers > length * 0.8            <=>  5 * transfers > 4 * length
\*   length / timeSpan > 0.1             <=>  10 * length > timeSpan
TransactionPatternScore(txs) ==
    IF Len(txs) < 10
    THEN [score |-> Max(0, 100 - 20),
          factors |-> <<"Very few transactions found, indicating low activity.">>]
    ELSE
      LET failed    == CountWhere(txs, LAMBDA t : t.status = "Failed")
          transfers == CountWhere(txs, LAMBDA t : t.type = "Token Transfer")
          p1 == 5 * failed > Len(txs)
          p2 == 5 * transfers > 4 * Len(txs)
          p3 == TimeSpan(txs) > 0 /\ 10 * Len(txs) > TimeSpan(txs)
      IN  [score |-> Max(0, 100 - (IF p1 THEN 20 ELSE 0)
                               - (IF p2 THEN 15 ELSE 0)
                               - (IF p3 THEN 10 ELSE 0)),
           factors |->
               (IF p1 THEN <<"High rate of failed transactions">> ELSE <<>>)
            \o (IF p2 THEN <<"Suspicious transaction pattern: High concentration of simple transfers">>
                      ELSE <<>>)
            \o (IF p3 THEN <<"Unusual transaction frequency (very high)">>
                      ELSE <<>>)]

\* try { getRecentTransactions(tokenAddress, 100) ... } catch { score 0 }
analyzeTransactionPatterns(a, tenv) ==
    LET r == getRecentTransactions(a, RiskTxLimit, tenv)
    IN  [out |-> IF r.out.kind = "throw"
                 THEN Ok([score |-> 0,
                          factors |-> <<"Error analyzing transactions">>])
                 ELSE Ok(TransactionPatternScore(r.out.value)),
         rpc |-> r.rpc]

\* sum of the percentages of the first n holders, over their common
\* denominator
RECURSIVE SumPercent(_, _)
SumPercent(holders, n) ==
    IF n = 0 \/ holders = <<>> THEN 0
    ELSE Head(holders).percentage.num + SumPercent(Tail(holders), n - 1)

\* Mutant: the top-holder deduction is added instead of subtracted.
analyzeHolderConcentrationSignSlip(holders) ==
    IF Len(holders) = 0
    THEN [score |-> 0, factors |-> <<"No holder data available">>]
    ELSE
      LET den   == holders[1].percentage.den
          top   == holders[1].percentage.num
          top10 == SumPercent(holders, 10)
          p1 == IF top > 50 * den THEN 40 ELSE IF top > 20 * den THEN 25 ELSE 0
          p10 == IF top10 > 90 * den THEN 30
                 ELSE IF top10 > 70 * den THEN 20 ELSE 0
      IN  [score |-> Max(0, 100 + p1 - p10), factors |-> <<>>]

\* Mutant: the combined percentage is taken over all holders, not the
\* first ten.
analyzeHolderConcentrationNoSlice(holders) ==
    IF Len(holders) = 0
    THEN [score |-> 0, factors |-> <<"No holder data available">>]
    ELSE
      LET den   == holders[1].percentage.den
          top   == holders[1].percentage.num
          top10 == SumPercent(holders, Len(holders))
          p1 == IF top > 50 * den THEN 40 ELSE IF top > 20 * den THEN 25 ELSE 0
          p10 == IF top10 > 90 * den THEN 30
                 ELSE IF top10 > 70 * den THEN 20 ELSE 0
      IN  [score |-> Max(0, 100 - p1 - p10),
           factors |->
               (IF p1 = 40 THEN <<"Extreme concentration: Top holder owns">>
                ELSE IF p1 = 25 THEN <<"High concentration: Top holder owns">>
                ELSE <<>>)
            \o (IF p10 = 30 THEN <<"Extreme top 10 concentration">>
                ELSE IF p10 = 20 THEN <<"High top 10 concentration">>
                ELSE <<>>)]

analyzeHolderConcentration(holders) ==
    IF Len(holders) = 0
    THEN [score |-> 0, factors |-> <<"No holder data available">>]
    ELSE
      LET den   == holders[1].percentage.den
          top   == holders[1].percentage.num
          top10 == SumPercent(holders, 10)
          p1 == IF top > 50 * den THEN 40 ELSE IF top > 20 * den THEN 25 ELSE 0
          p10 == IF top10 > 90 * den THEN 30
                 ELSE IF top10 > 70 * den THEN 20 ELSE 0
      IN  [score |-> Max(0, 100 - p1 - p10),
           factors |->
               (IF p1 = 40 THEN <<"Extreme concentration: Top holder owns">>
                ELSE IF p1 = 25 THEN <<"High concentration: Top holder owns">>
                ELSE <<>>)
            \o (IF p10 = 30 THEN <<"Extreme top 10 concentration">>
                ELSE IF p10 = 20 THEN <<"High top 10 concentration">>
                ELSE <<>>)]

\* The liquidity part of analyzeLiquidityAndContract.
\*   avgVolume = totalVolume / (length || 1);   avgVolume < k  <=>
\*       totalVolume < k * (length || 1)
\*   txPerDay = length / (timeSpanSeconds / 86400);  txPerDay < k  <=>
\*       length * 86400 < k * timeSpanSeconds
LiquidityPenalties(txs) ==
    LET total == SumSeq([i \in 1..Len(txs) |-> Abs(txs[i].amount)])
        cnt   == IF Len(txs) = 0 THEN 1 ELSE Len(txs)
        vol   == IF total < cnt THEN 20 ELSE IF total < 10 * cnt THEN 10 ELSE 0
        timed == /\ Len(txs) > 1
                 /\ txs[1].timestamp # NullTime
                 /\ txs[Len(txs)].timestamp # NullTime
        span  == IF timed THEN txs[1].timestamp - txs[Len(txs)].timestamp ELSE 0
        freq  == IF timed
                 THEN IF span > 0
                      THEN IF Len(txs) * SecondsPerDay < 10 * span THEN 20
                           ELSE IF Len(txs) * SecondsPerDay < 50 * span THEN 10
                           ELSE 0
                      ELSE 0
                 ELSE IF Len(txs) <= 1 THEN 30 ELSE 0
    IN  [vol |-> vol, freq |-> freq]

LiquidityFactors(p) ==
       (IF p.vol = 20 THEN <<"Very low average transaction SOL volume">>
        ELSE IF p.vol = 10 THEN <<"Low average transaction SOL volume">>
        ELSE <<>>)
    \o (IF p.freq = 20
        THEN <<"Very low transaction frequency (less than 10 txs per day)">>
        ELSE IF p.freq = 10
        THEN <<"Low transaction frequency (less than 50 txs per day)">>
        ELSE IF p.freq = 30 THEN <<"Negligible transaction history found.">>
        ELSE <<>>)

MintAuthorityPenalty == 50

FreezeAuthorityPenalty == 40

ContractFactors(data) ==
       (IF data.mintAuthority
        THEN <<"DANGER: Active mint authority - token supply can be inflated at will.">>
        ELSE <<>>)
    \o (IF data.freezeAuthority
        THEN <<"WARNING: Active freeze authority - token holders can be frozen.">>
        ELSE <<>>)

\* Mutant: the freeze authority is not penalised.
ContractRiskScoreMintOnly(data) ==
    Max(0, 100 - (IF data.mintAuthority THEN MintAuthorityPenalty ELSE 0))

\* Mutant: the authority penalties at a fifth of their weight.
ContractRiskScoreLightPenalties(data) ==
    Max(0, 100 - (IF data.mintAuthority THEN MintAuthorityPenalty \div 5 ELSE 0)
               - (IF data.freezeAuthority THEN FreezeAuthorityPenalty \div 5
                  ELSE 0))

ContractRiskScore(data) ==
    Max(0, 100 - (IF data.mintAuthority THEN MintAuthorityPenalty ELSE 0)
               - (IF data.freezeAuthority THEN FreezeAuthorityPenalty ELSE 0))

\* Promise.all([getOnChainTokenData, getRecentTransactions]) inside try;
\* the catch yields 0 / 0 and one error factor.
analyzeLiquidityAndContract(a, menv, tenv) ==
    LET d == getOnChainTokenData(a, menv)
        r == getRecentTransactions(a, RiskTxLimit, tenv)
    IN  IF d.out.kind = "throw" \/ r.out.kind = "throw"
        THEN [out |-> Ok([liquidityScore |-> 0, contractRiskScore |-> 0,
                          factors |-> <<"Error analyzing on-chain data">>]),
              rpc |-> d.rpc + r.rpc]
        ELSE LET p == LiquidityPenalties(r.out.value)
             IN  [out |-> Ok([liquidityScore |-> Max(0, 100 - p.vol - p.freq),
                              contractRiskScore |->
                                  ContractRiskScore(d.out.value),
                              factors |-> LiquidityFactors(p)
                                          \o ContractFactors(d.out.value)]),
                  rpc |-> d.rpc + r.rpc]

\* Mutant: the mean is truncated instead of rounded.
RoundedMean4Truncated(sum) == sum \div 4

\* Math.round(sum / 4) for a sum >= 0 (halves round up).
RoundedMean4(sum) == (sum + 2) \div 4

\* The composite from the settled results lc, hd and tp of the fan-out.
RiskMetrics(lc, hd, tp) ==
      LET rpc == lc.rpc + hd.rpc + tp.rpc
      IN  IF lc.out.kind = "throw" THEN [out |-> lc.out, rpc |-> rpc]
          ELSE IF hd.out.kind = "throw" THEN [out |-> hd.out, rpc |-> rpc]
          ELSE IF tp.out.kind = "throw" THEN [out |-> tp.out, rpc |-> rpc]
          ELSE
            LET l   == lc.out.value
                t   == tp.out.value
                ha  == analyzeHolderConcentration(hd.out.value)
                all == l.factors \o ha.factors \o t.factors
                sum == l.liquidityScore + l.contractRiskScore
                       + ha.score + t.score
            IN  [out |-> Ok([liquidityScore |-> l.liquidityScore,
                             contractRiskScore |-> l.contractRiskScore,
                             holderConcentrationScore |-> ha.score,
                             transactionPatternScore |-> t.score,
                             overallRiskScore |-> RoundedMean4(sum),
                             riskFactors |->
                                 IF Len(all) > 0 THEN all
                                 ELSE <<"No significant risk factors identified.">>]),
                 rpc |-> rpc]

\* env: the environments of the five lookups the composite fans out to.
\* The fan-out is a Promise.all outside any try: a rejection of one of the
\* three analyses would reject the composite.
analyzeTokenRisk(a, env) ==
    IF ~isValidSolanaAddress(a)
    THEN [out |-> Throw("Invalid Solana token address provided."), rpc |-> 0]
    ELSE CHOOSE r \in
           { RiskMetrics(lc, hd, tp) :
               lc \in {analyzeLiquidityAndContract(a, env.lcMint, env.lcTx)},
               hd \in {getTokenHoldersDistribution(a, env.largest,
                                                    env.hdMint)},
               tp \in {analyzeTransactionPatterns(a, env.tpTx)} } : TRUE

\* ------------------------------------------------------------------------
\* Calls of the chain data client and of the risk engine
\* ------------------------------------------------------------------------

TxCounts == {0, 1, 2, 10, 12}

TxEnvs ==
    { TxEnv(ss, n, dt, ne, nx, fa, sol) :
        ss \in ScriptsBrief, n \in TxCounts, dt \in {0, 5, 20000},
        ne \in {0, 3}, nx \in {0, 9, 12}, fa \in {0, 1}, sol \in {0, 1, 10} }

\* The environments the composite is explored with.
TxEnvsBrief ==
    { TxEnv(<<FALSE, FALSE, FALSE>>, 0, 0, 0, 0, 0, 0),
      TxEnv(<<TRUE>>, 0, 0, 0, 0, 0, 0),
      TxEnv(<<TRUE>>, 1, 5, 0, 0, 0, 1),
      TxEnv(<<TRUE>>, 12, 20000, 0, 0, 0, 10),
      TxEnv(<<TRUE>>, 12, 5, 3, 12, 0, 1),
      TxEnv(<<TRUE>>, 12, 5, 0, 0, 0, 10),
      TxEnv(<<TRUE>>, 12, 5, 0, 0, 1, 10) }

MintEnvsBrief ==
    [script : ScriptsBrief,
     info : { MintInfo("noAccount", 0, 0, FALSE, FALSE) }
            \cup { MintInfo("mint", 1000, 1, ma, fa) :
                     ma \in BOOLEAN, fa \in BOOLEAN }]

MintEnvsTiny ==
    { [script |-> <<FALSE, FALSE, FALSE>>,
       info |-> MintInfo("mint", 1000, 1, FALSE, FALSE)],
      [script |-> <<TRUE>>, info |-> MintInfo("mint", 0, 0, FALSE, FALSE)],
      [script |-> <<TRUE>>, info |-> MintInfo("mint", 1000, 1, FALSE, FALSE)] }

LargestEnvsBrief ==
    { [script |-> <<FALSE, FALSE, FALSE>>, hasValue |-> TRUE, balances |-> <<>>],
      [script |-> <<TRUE>>, hasValue |-> TRUE, balances |-> <<>>],
      [script |-> <<TRUE>>, hasValue |-> TRUE,
       balances |-> <<60, 5, 5, 5, 5, 5, 5, 5, 5, 5>>],
      [script |-> <<TRUE>>, hasValue |-> TRUE, balances |-> <<5, 5>>] }

RiskEnvs ==
    [lcMint : MintEnvsBrief, lcTx : TxEnvsBrief, largest : LargestEnvsBrief,
     hdMint : MintEnvsTiny, tpTx : TxEnvsBrief]

AddressesBrief ==
    { [base58 |-> TRUE, bytes |-> PUBLIC_KEY_LENGTH],
      [base58 |-> FALSE, bytes |-> PUBLIC_KEY_LENGTH],
      [base58 |-> TRUE, bytes |-> PUBLIC_KEY_LENGTH - 1] }

ChainFunctions ==
    {"getSolBalance", "getTokenBalance", "getRecentTransactions",
     "getOnChainTokenData", "getTokenHoldersDistribution",
     "analyzeTransactionPatterns", "analyzeLiquidityAndContract",
     "analyzeTokenRisk"}

\* A caller (a tool wrapper, a workflow step, a test) invokes one of the
\* exported functions.
Invoke ==
    /\ call.pc = "idle"
    /\ \E fn \in ChainFunctions : call' = [pc |-> "invoked", fn |-> fn]
    /\ UNCHANGED <<retry, tx, news, market>>

Invoked(fn) == call.pc = "invoked" /\ call.fn = fn

Done(fn, addr, env, r) ==
    [pc |-> "done", fn |-> fn, addr |-> addr, env |-> env,
     out |-> r.out, rpc |-> r.rpc]

CallGetSolBalance ==
    /\ Invoked("getSolBalance")
    /\ \E a \in Addresses, sc \in RetryScripts, lam \in LamportChoices :
          call' = Done("getSolBalance", a,
                       [script |-> sc, lamports |-> lam],
                       getSolBalance(a, sc, lam))
    /\ UNCHANGED <<retry, tx, news, market>>

CallGetTokenBalance ==
    /\ Invoked("getTokenBalance")
    /\ \E w \in Addresses, m \in Addresses, ok \in BOOLEAN,
          accs \in TokenAccountChoices :
          call' = Done("getTokenBalance", w,
                       [mint |-> m, rpcOk |-> ok, accounts |-> accs],
                       getTokenBalance(w, m, ok, accs))
    /\ UNCHANGED <<retry, tx, news, market>>

CallGetRecentTransactions ==
    /\ Invoked("getRecentTransactions")
    /\ \E a \in AddressesBrief, lim \in Limits \cup {RiskTxLimit},
          e \in TxEnvs :
          call' = Done("getRecentTransactions", a,
                       [limit |-> lim, tx |-> e],
                       getRecentTransactions(a, lim, e))
    /\ UNCHANGED <<retry, tx, news, market>>

CallGetOnChainTokenData ==
    /\ Invoked("getOnChainTokenData")
    /\ \E a \in Addresses, e \in MintEnvs :
          call' = Done("getOnChainTokenData", a, e, getOnChainTokenData(a, e))
    /\ UNCHANGED <<retry, tx, news, market>>

CallGetTokenHoldersDistribution ==
    /\ Invoked("getTokenHoldersDistribution")
    /\ \E a \in AddressesBrief, le \in LargestEnvs, me \in MintEnvs :
          call' = Done("getTokenHoldersDistribution", a,
                       [largest |-> le, mint |-> me],
                       getTokenHoldersDistribution(a, le, me))
    /\ UNCHANGED <<retry, tx, news, market>>

CallAnalyzeTransactionPatterns ==
    /\ Invoked("analyzeTransactionPatterns")
    /\ \E a \in AddressesBrief, e \in TxEnvs :
          call' = Done("analyzeTransactionPatterns", a, [tx |-> e],
                       analyzeTransactionPatterns(a, e))
    /\ UNCHANGED <<retry, tx, news, market>>

CallAnalyzeLiquidityAndContract ==
    /\ Invoked("analyzeLiquidityAndContract")
    /\ \E a \in AddressesBrief, me \in MintEnvsBrief, e \in TxEnvs :
          call' = Done("analyzeLiquidityAndContract", a,
                       [mint |-> me, tx |-> e],
                       analyzeLiquidityAndContract(a, me, e))
    /\ UNCHANGED <<retry, tx, news, market>>

CallAnalyzeTokenRisk ==
    /\ Invoked("analyzeTokenRisk")
    /\ \E a \in AddressesBrief, e \in RiskEnvs :
          call' = Done("analyzeTokenRisk", a, e, analyzeTokenRisk(a, e))
    /\ UNCHANGED <<retry, tx, news, market>>

ChainInit == RetryInit

ChainNext ==
    \/ Invoke
    \/ CallGetSolBalance
    \/ CallGetTokenBalance
    \/ CallGetRecentTransactions
    \/ CallGetOnChainTokenData
    \/ CallGetTokenHoldersDistribution
    \/ CallAnalyzeTransactionPatterns
    \/ CallAnalyzeLiquidityAndContract
    \/ CallAnalyzeTokenRisk

SpecChain == ChainInit /\ [][ChainNext]_vars

CallIs(fn) == call.pc = "done" /\ call.fn = fn

\* --- claims about the chain data client and the risk engine ---

AddressChecked ==
    {"getSolBalance", "getTokenBalance", "getRecentTransactions",
     "getOnChainTokenData", "getTokenHoldersDistribution", "analyzeTokenRisk"}

\* An address argument of the completed call is rejected by
\* isValidSolanaAddress.
CallHasBadAddress ==
    \/ ~isValidSolanaAddress(call.addr)
    \/ call.fn = "getTokenBalance" /\ ~isValidSolanaAddress(call.env.mint)

\* C3: a call of getSolBalance, getTokenBalance (wallet or mint),
\* getRecentTransactions, getOnChainTokenData, getTokenHoldersDistribution
\* or analyzeTokenRisk with an address isValidSolanaAddress rejects issues
\* no RPC request.
C3_NoRpcOnBadAddress ==
    (call.pc = "done" /\ call.fn \in AddressChecked /\ CallHasBadAddress)
        => call.rpc = 0

C3_Witness ==
    /\ CallIs("getTokenBalance")
    /\ isValidSolanaAddress(call.addr)
    /\ ~isValidSolanaAddress(call.env.mint)
    /\ call.env.rpcOk
    /\ call.rpc = 0

AllFail == <<FALSE, FALSE, FALSE>>

\* C8: analyzeTokenRisk on a well-formed address returns risk metrics
\* whatever lookups fail; on a malformed address it throws without having
\* issued an RPC request.
C8_CompositeAlwaysReturns ==
    CallIs("analyzeTokenRisk") =>
        IF isValidSolanaAddress(call.addr)
        THEN /\ call.out.kind = "ok"
             /\ call.out.value.overallRiskScore \in 0..100
        ELSE /\ call.out.kind = "throw"
             /\ call.rpc = 0

C8_Witness ==
    /\ CallIs("analyzeTokenRisk")
    /\ isValidSolanaAddress(call.addr)
    /\ call.env.lcMint.script = AllFail
    /\ call.env.lcTx.sigScript = AllFail
    /\ call.env.largest.script = AllFail
    /\ call.env.tpTx.failAt = 1
    /\ call.out.kind = "ok"

\* The transaction fetch of a risk sub-analysis fails after its retries:
\* the signature lookup, or the detail fetch of one of the signatures.
TxFetchFails(e) ==
    \/ e.sigScript = AllFail
    \/ e.failAt \in 1..Min(e.n, RiskTxLimit)

MintFetchFails(me) == me.script = AllFail

ErrorResult(v) == Len(v.factors) = 1 /\ v.factors[1] \in
    {"Error analyzing transactions", "Error analyzing on-chain data"}

\* C9: when the transaction fetch fails after its retries,
\* analyzeTransactionPatterns returns score 0 with an error factor; when the
\* mint-info fetch or the transaction fetch fails, analyzeLiquidityAndContract
\* returns liquidityScore 0 and contractRiskScore 0 with an error factor.
C9_FailedLookupZeroScore ==
    /\ ( /\ CallIs("analyzeTransactionPatterns")
         /\ isValidSolanaAddress(call.addr)
         /\ TxFetchFails(call.env.tx) ) =>
            /\ call.out.kind = "ok"
            /\ call.out.value.score = 0
            /\ ErrorResult(call.out.value)
    /\ ( /\ CallIs("analyzeLiquidityAndContract")
         /\ isValidSolanaAddress(call.addr)
         /\ (MintFetchFails(call.env.mint) \/ TxFetchFails(call.env.tx)) ) =>
            /\ call.out.kind = "ok"
            /\ call.out.value.liquidityScore = 0
            /\ call.out.value.contractRiskScore = 0
            /\ ErrorResult(call.out.value)

\* The part of C9 the code keeps: a failed mint-info fetch zeroes both
\* scores of analyzeLiquidityAndContract.
C9_MintFailureZeroScore ==
    ( /\ CallIs("analyzeLiquidityAndContract")
      /\ isValidSolanaAddress(call.addr)
      /\ MintFetchFails(call.env.mint) ) =>
         /\ call.out.value.liquidityScore = 0
         /\ call.out.value.contractRiskScore = 0
         /\ ErrorResult(call.out.value)

\* A completed analyzeTokenRisk call for a mint with both authorities set,
\* no transactions and no holder data.
BothAuthoritiesNoData ==
    /\ CallIs("analyzeTokenRisk")
    /\ isValidSolanaAddress(call.addr)
    /\ call.env.lcMint.script # AllFail
    /\ call.env.lcMint.info.state = "mint"
    /\ call.env.lcMint.info.mintAuthority
    /\ call.env.lcMint.info.freezeAuthority
    /\ getRecentTransactions(call.addr, RiskTxLimit, call.env.lcTx).out.value
           = <<>>
    /\ getRecentTransactions(call.addr, RiskTxLimit, call.env.tpTx).out.value
           = <<>>
    /\ getTokenHoldersDistribution(call.addr, call.env.largest,
                                   call.env.hdMint).out.value = <<>>

\* C10: for a token with both authorities active and no other data,
\* analyzeTokenRisk returns contractRiskScore 100 - 50 - 40 = 10 and an
\* overallRiskScore below 60 (risk level HIGH or EXTREMELY HIGH).
C10_BothAuthorities ==
    BothAuthoritiesNoData =>
        /\ call.out.kind = "ok"
        /\ call.out.value.contractRiskScore = 10
        /\ call.out.value.overallRiskScore < 60

C10_Witness ==
    /\ BothAuthoritiesNoData
    /\ call.env.lcTx.sigScript = <<TRUE>>
    /\ call.env.largest.script = <<TRUE>>
    /\ call.out.value.overallRiskScore = 35

\* ------------------------------------------------------------------------
\* Strings with letter case
\*
\* A string whose case matters is a sequence of one-letter strings, so that
\* String.prototype.toLowerCase is computed letter by letter.
\* ------------------------------------------------------------------------

LowerChar(c) ==
    CASE c = "A" -> "a"
      [] c = "B" -> "b"
      [] c = "C" -> "c"
      [] c = "E" -> "e"
      [] c = "P" -> "p"
      [] OTHER -> c

toLowerCase(s) == [i \in DOMAIN s |-> LowerChar(s[i])]

\* ------------------------------------------------------------------------
\* News aggregator: getAllNews, fetchCryptoNews, fetchWeb3News
\*
\* news.feed is what the two providers currently serve; a fetch either
\* answers its provider's list or fails (missing API key, HTTP error,
\* network error), which the fetcher catches.  publishedAt is the article's
\* time in seconds (new Date(publishedAt).getTime() of a valid date).
\* ------------------------------------------------------------------------

MaxArticles == 2

MaxTicks == 1

NEWS_CACHE_DURATION == 300000

Article(title, url, publishedAt) ==
    [title |-> title, url |-> url, publishedAt |-> publishedAt,
     summary |-> <<>>]

NewsSamples ==
    { Article(<<"A", "b">>, "u1", 3),
      Article(<<"a", "b">>, "u1", 2),
      Article(<<"a", "b">>, "u2", 2),
      Article(<<"c">>, "u2", 1) }

Feeds ==
    [crypto : SeqsUpTo(NewsSamples, MaxArticles),
     web3 : SeqsUpTo(NewsSamples, MaxArticles - 1)]

\* fetchCryptoNews / fetchWeb3News: the try body answers the mapped
\* articles or throws; the catch turns every throw into the empty list.
FetchNewsBody(ok, articles) ==
    IF ok THEN Ok(articles) ELSE Throw("source")

fetchNews(ok, articles) ==
    LET r == FetchNewsBody(ok, articles)
    IN  IF r.kind = "throw" THEN Ok(<<>>) ELSE r

\* Array.prototype.sort is stable: an article goes after every article that
\* the comparator does not order after it.
RECURSIVE InsertByTime(_, _)
InsertByTime(s, a) ==
    IF s = <<>> THEN <<a>>
    ELSE IF Head(s).publishedAt - a.publishedAt >= 0
         THEN <<Head(s)>> \o InsertByTime(Tail(s), a)
         ELSE <<a>> \o s

\* [...cryptoNews, ...web3News].sort((a, b) => time(b) - time(a))
RECURSIVE SortByTime(_)
SortByTime(s) ==
    IF s = <<>> THEN <<>>
    ELSE InsertByTime(SortByTime(SubSeq(s, 1, Len(s) - 1)), s[Len(s)])

\* The findIndex predicate of the filter.
SameStoryExactTitle(a, b) ==
    \/ a.title = b.title
    \/ a.url = b.url

SameStory(a, b) ==
    \/ toLowerCase(a.title) = toLowerCase(b.title)
    \/ a.url = b.url

\* self.findIndex(a => SameStory(a, article)), 1-based; 0 when none.
FindIndex(self, article) ==
    LET hits == {i \in 1..Len(self) : SameStory(self[i], article)}
    IN  IF hits = {} THEN 0
        ELSE CHOOSE i \in hits : \A j \in hits : i <= j

\* allArticles.filter((article, index, self) => index === findIndex(...))
RECURSIVE FilterFrom(_, _)
FilterFrom(self, index) ==
    IF index > Len(self) THEN <<>>
    ELSE (IF FindIndex(self, self[index]) = index
          THEN <<self[index]>> ELSE <<>>)
         \o FilterFrom(self, index + 1)

uniqueArticles(allArticles) == FilterFrom(allArticles, 1)

\* --- analyzeTrendingTopics ---
\*
\* A text is the sequence of its words, the pieces text.split(/\W+/) yields;
\* a word is a sequence of one-character strings.  The title of an article
\* is one word, its summary a sequence of words.  The vocabulary holds no
\* name inherited from Object.prototype.

TopicLimit == 5

MinWordLength == 3

StopWords ==
    { <<"t", "h", "e">>, <<"a">>, <<"a", "n">>, <<"a", "n", "d">>,
      <<"o", "r">>, <<"b", "u", "t">>, <<"i", "n">>, <<"o", "n">>,
      <<"a", "t">>, <<"t", "o">>, <<"f", "o", "r">>,
      <<"w", "i", "t", "h">>, <<"b", "y">>,
      <<"a", "b", "o", "u", "t">>, <<"a", "s">>, <<"o", "f">> }

Digits == {"0", "1", "2", "3", "4", "5", "6", "7", "8", "9"}

DigitValue(c) ==
    CASE c = "0" -> 0 [] c = "1" -> 1 [] c = "2" -> 2 [] c = "3" -> 3
      [] c = "4" -> 4 [] c = "5" -> 5 [] c = "6" -> 6 [] c = "7" -> 7
      [] c = "8" -> 8 [] c = "9" -> 9

\* Digit strings of equal length compared as numbers.
RECURSIVE DigitsLess(_, _)
DigitsLess(a, b) ==
    IF a = <<>> THEN FALSE
    ELSE IF DigitValue(Head(a)) # DigitValue(Head(b))
         THEN DigitValue(Head(a)) < DigitValue(Head(b))
         ELSE DigitsLess(Tail(a), Tail(b))

\* Numeric order of canonical digit strings.
IndexLess(a, b) ==
    \/ Len(a) < Len(b)
    \/ Len(a) = Len(b) /\ DigitsLess(a, b)

\* The largest array index, 2^32 - 2.
MaxArrayIndex == <<"4", "2", "9", "4", "9", "6", "7", "2", "9", "4">>

\* A property key that is an array index: own keys of an object are
\* listed with the array indices first, in ascending numeric order, and
\* the other strings after them in insertion order.
IsArrayIndex(w) ==
    /\ w # <<>>
    /\ \A i \in 1..Len(w) : w[i] \in Digits
    /\ (w[1] = "0" => Len(w) = 1)
    /\ ~IndexLess(MaxArrayIndex, w)

\* `${title} ${summary}`.toLowerCase().split(/\W+/)
ArticleWords(article) ==
    LET text == <<article.title>> \o article.summary
    IN  [i \in 1..Len(text) |-> toLowerCase(text[i])]

RECURSIVE AllWords(_)
AllWords(articles) ==
    IF articles = <<>> THEN <<>>
    ELSE ArticleWords(Head(articles)) \o AllWords(Tail(articles))

IsTopicWord(word) == Len(word) > MinWordLength /\ word \notin StopWords

\* The words counted, in the order they are encountered.
CountedWords(articles) == SelectSeq(AllWords(articles), IsTopicWord)

Frequency(words, w) == Cardinality({i \in 1..Len(words) : words[i] = w})

\* The keys of wordFrequency in insertion order.
RECURSIVE InsertionOrder(_)
InsertionOrder(words) ==
    IF words = <<>> THEN <<>>
    ELSE LET rest == InsertionOrder(SubSeq(words, 1, Len(words) - 1))
             w == words[Len(words)]
         IN  IF \E i \in 1..Len(rest) : rest[i] = w THEN rest
             ELSE Append(rest, w)

RECURSIVE InsertIndex(_, _)
InsertIndex(s, w) ==
    IF s = <<>> THEN <<w>>
    ELSE IF IndexLess(w, Head(s)) THEN <<w>> \o s
         ELSE <<Head(s)>> \o InsertIndex(Tail(s), w)

RECURSIVE SortIndices(_)
SortIndices(s) ==
    IF s = <<>> THEN <<>> ELSE InsertIndex(SortIndices(Tail(s)), Head(s))

IsPlainKey(w) == ~IsArrayIndex(w)

\* Object.entries(wordFrequency), keys only.
Entries(words) ==
    LET keys == InsertionOrder(words)
    IN  SortIndices(SelectSeq(keys, IsArrayIndex))
        \o SelectSeq(keys, IsPlainKey)

\* .sort(([,a], [,b]) => b - a), stable.
RECURSIVE InsertByCount(_, _, _)
InsertByCount(s, w, words) ==
    IF s = <<>> THEN <<w>>
    ELSE IF Frequency(words, w) - Frequency(words, Head(s)) <= 0
         THEN <<Head(s)>> \o InsertByCount(Tail(s), w, words)
         ELSE <<w>> \o s

RECURSIVE SortByCount(_, _)
SortByCount(keys, words) ==
    IF keys = <<>> THEN <<>>
    ELSE InsertByCount(SortByCount(SubSeq(keys, 1, Len(keys) - 1), words),
                       keys[Len(keys)], words)

analyzeTrendingTopics(articles) ==
    LET words == CountedWords(articles)
        sorted == SortByCount(Entries(words), words)
    IN  SubSeq(sorted, 1, Min(TopicLimit, Len(sorted)))

NewsResponse(articles, at) ==
    [articles |-> articles,
     totalResults |-> Len(articles),
     lastUpdated |-> at,
     trendingTopics |-> analyzeTrendingTopics(articles)]

NoNewsCache == [set |-> FALSE]

NewsCacheFresh(cache, now) ==
    cache.set /\ (now - cache.timestamp) < NEWS_CACHE_DURATION

NewsIdle(n) ==
    [pc |-> "idle", feed |-> n.feed, clock |-> n.clock, ticks |-> n.ticks,
     cache |-> n.cache]

\* Date.now() advances between the steps of the event loop.
NewsTick ==
    /\ news.ticks < MaxTicks
    /\ \E d \in {1, NEWS_CACHE_DURATION} :
           news' = [news EXCEPT !.clock = @ + d, !.ticks = @ + 1]
    /\ UNCHANGED <<retry, tx, call, market>>

\* getAllNews up to its first await: a fresh cache entry is returned,
\* otherwise both fetches are started.
GetAllNewsCall ==
    /\ news.pc = "idle"
    /\ news' =
         IF NewsCacheFresh(news.cache, news.clock)
         THEN [NewsIdle(news) EXCEPT !.pc = "returned"]
                  @@ [now |-> news.clock, refreshed |-> FALSE,
                      out |-> Ok(news.cache.data)]
         ELSE [NewsIdle(news) EXCEPT !.pc = "fetching"]
                  @@ [now |-> news.clock, refreshed |-> TRUE,
                      cryptoNews |-> Pending, web3News |-> Pending,
                      cryptoFailed |-> FALSE, web3Failed |-> FALSE]
    /\ UNCHANGED <<retry, tx, call, market>>

FetchCryptoNewsSettle(ok) ==
    /\ news.pc = "fetching"
    /\ news.cryptoNews = Pending
    /\ news' = [news EXCEPT !.cryptoNews = fetchNews(ok, news.feed.crypto),
                            !.cryptoFailed = ~ok]
    /\ UNCHANGED <<retry, tx, call, market>>

FetchCryptoNewsResolve == FetchCryptoNewsSettle(TRUE)

FetchCryptoNewsFail == FetchCryptoNewsSettle(FALSE)

FetchWeb3NewsSettle(ok) ==
    /\ news.pc = "fetching"
    /\ news.web3News = Pending
    /\ news' = [news EXCEPT !.web3News = fetchNews(ok, news.feed.web3),
                            !.web3Failed = ~ok]
    /\ UNCHANGED <<retry, tx, call, market>>

FetchWeb3NewsResolve == FetchWeb3NewsSettle(TRUE)

FetchWeb3NewsFail == FetchWeb3NewsSettle(FALSE)

\* The continuation of await Promise.all([...]): merge, sort, filter, build
\* the response, store it in the cache with the time the call started, and
\* return it.
GetAllNewsResume ==
    /\ news.pc = "fetching"
    /\ news.cryptoNews # Pending
    /\ news.web3News # Pending
    /\ LET allArticles ==
               SortByTime(news.cryptoNews.value \o news.web3News.value)
           response ==
               NewsResponse(uniqueArticles(allArticles), news.clock)
       IN  news' = [pc |-> "returned", feed |-> news.feed,
                    clock |-> news.clock, ticks |-> news.ticks,
                    now |-> news.now, refreshed |-> TRUE,
                    cryptoNews |-> news.cryptoNews,
                    web3News |-> news.web3News,
                    cryptoFailed |-> news.cryptoFailed,
                    web3Failed |-> news.web3Failed,
                    allArticles |-> allArticles,
                    cache |-> [set |-> TRUE, data |-> response,
                               timestamp |-> news.now],
                    out |-> Ok(response)]
    /\ UNCHANGED <<retry, tx, call, market>>

\* The caller takes the result; the module is ready for the next call.
GetAllNewsReturn ==
    /\ news.pc = "returned"
    /\ news' = NewsIdle(news)
    /\ UNCHANGED <<retry, tx, call, market>>

NewsInit ==
    /\ retry = Idle
    /\ tx = Idle
    /\ call = Idle
    /\ market = Idle
    /\ \E feed \in Feeds :
           news = [pc |-> "idle", feed |-> feed, clock |-> 0, ticks |-> 0,
                   cache |-> NoNewsCache]

NewsNext ==
    \/ NewsTick
    \/ GetAllNewsCall
    \/ FetchCryptoNewsResolve
    \/ FetchCryptoNewsFail
    \/ FetchWeb3NewsResolve
    \/ FetchWeb3NewsFail
    \/ GetAllNewsResume
    \/ GetAllNewsReturn

SpecNews == NewsInit /\ [][NewsNext]_vars

\* A getAllNews call that found no fresh cache entry has finished.
NewsRefreshed ==
    /\ news.pc \in {"returned", "thrown"}
    /\ news.refreshed

ResultOf(articles) == uniqueArticles(SortByTime(articles))

\* One source failing: the result is built from the other source alone.
C5_OneSourceDegrades ==
    /\ (NewsRefreshed /\ news.cryptoFailed /\ ~news.web3Failed) =>
           /\ news.out.kind = "ok"
           /\ news.out.value.articles = ResultOf(news.feed.web3)
    /\ (NewsRefreshed /\ ~news.cryptoFailed /\ news.web3Failed) =>
           /\ news.out.kind = "ok"
           /\ news.out.value.articles = ResultOf(news.feed.crypto)

\* Both sources failing: the call throws and the cache keeps no empty
\* response of that call.
C5_BothSourcesFailPropagates ==
    (NewsRefreshed /\ news.cryptoFailed /\ news.web3Failed) =>
        /\ news.out.kind = "throw"
        /\ ~(news.cache.set /\ news.cache.timestamp = news.now
                            /\ news.cache.data.articles = <<>>)

\* C5: with no fresh cache, a single failing source degrades to the other
\* source's articles without an error, and both sources failing makes
\* getAllNews throw instead of returning or caching an empty response.
C5_SourceFailures ==
    /\ C5_OneSourceDegrades
    /\ C5_BothSourcesFailPropagates

Duplicates(a, b) ==
    \/ toLowerCase(a.title) = toLowerCase(b.title)
    \/ a.url = b.url

Occurrences(s, a) == Cardinality({i \in 1..Len(s) : s[i] = a})

IsPermutation(s, t) ==
    /\ Len(s) = Len(t)
    /\ \A i \in 1..Len(s) : Occurrences(s, s[i]) = Occurrences(t, s[i])

MaxTokens == 2

CACHE_DURATION == 3600000

TokenStrings == { <<"b", "c">>, <<"B", "C">>, <<"a">> }

CoinGeckoToken ==
    [id : TokenStrings, symbol : TokenStrings,
     name : {<<"B", "C">>, <<"a">>}]

Catalogs == SeqsUpTo(CoinGeckoToken, MaxTokens)

NullToken == [null |-> TRUE]

\* tokens.find(...): the first element among the matching positions,
\* undefined when none matches.
Find(tokens, hits) ==
    IF hits = {} THEN NullToken
    ELSE tokens[CHOOSE i \in hits : \A j \in hits : i <= j]

\* The body of findToken after tokens = await getTokenList().
findToken(tokens, searchTerm) ==
    LET normalizedSearch == toLowerCase(searchTerm)
        exactMatch ==
            Find(tokens, {i \in 1..Len(tokens) :
                             tokens[i].id = normalizedSearch})
        symbolMatch ==
            Find(tokens, {i \in 1..Len(tokens) :
                             toLowerCase(tokens[i].symbol) = normalizedSearch})
        nameMatch ==
            Find(tokens, {i \in 1..Len(tokens) :
                             toLowerCase(tokens[i].name) = normalizedSearch})
    IN  IF exactMatch # NullToken THEN exactMatch
        ELSE IF symbolMatch # NullToken THEN symbolMatch
        ELSE nameMatch

NoTokenListCache == [set |-> FALSE, lastCacheUpdate |-> 0]

TokenListCacheFresh(cache, now) ==
    cache.set /\ (now - cache.lastCacheUpdate) < CACHE_DURATION

MarketIdle(m) ==
    [pc |-> "idle", catalog |-> m.catalog, clock |-> m.clock,
     ticks |-> m.ticks, cache |-> m.cache]

MarketTick ==
    /\ market.ticks < MaxTicks
    /\ \E d \in {1, CACHE_DURATION} :
           market' = [market EXCEPT !.clock = @ + d, !.ticks = @ + 1]
    /\ UNCHANGED <<retry, tx, call, news>>

\* findToken(searchTerm) up to the first await of getTokenList: with a
\* fresh cache the cached list is searched, otherwise the list is fetched.
FindTokenCall ==
    /\ market.pc = "idle"
    /\ \E searchTerm \in TokenStrings :
         market' =
           IF TokenListCacheFresh(market.cache, market.clock)
           THEN [MarketIdle(market) EXCEPT !.pc = "returned"]
                    @@ [searchTerm |-> searchTerm, now |-> market.clock,
                        fetched |-> FALSE, tokens |-> market.cache.tokens,
                        out |-> Ok(findToken(market.cache.tokens,
                                             searchTerm))]
           ELSE [MarketIdle(market) EXCEPT !.pc = "fetching"]
                    @@ [searchTerm |-> searchTerm, now |-> market.clock,
                        fetched |-> TRUE]
    /\ UNCHANGED <<retry, tx, call, news>>

\* The coin-list request answers: the cache is refreshed with the time the
\* call started and findToken searches the new list.
TokenListResolve ==
    /\ market.pc = "fetching"
    /\ market' = [market EXCEPT
                      !.pc = "returned",
                      !.cache = [set |-> TRUE, tokens |-> market.catalog,
                                 lastCacheUpdate |-> market.now]]
                  @@ [tokens |-> market.catalog,
                      out |-> Ok(findToken(market.catalog,
                                           market.searchTerm))]
    /\ UNCHANGED <<retry, tx, call, news>>

\* The coin-list request fails: getTokenList throws, and so does findToken;
\* the cache is left as it was.
TokenListReject ==
    /\ market.pc = "fetching"
    /\ market' = [market EXCEPT !.pc = "thrown"]
                  @@ [tokens |-> <<>>,
                      out |-> Throw("Failed to fetch token list")]
    /\ UNCHANGED <<retry, tx, call, news>>

FindTokenReturn ==
    /\ market.pc \in {"returned", "thrown"}
    /\ market' = MarketIdle(market)
    /\ UNCHANGED <<retry, tx, call, news>>

MarketInit ==
    /\ retry = Idle
    /\ tx = Idle
    /\ call = Idle
    /\ news = Idle
    /\ \E catalog \in Catalogs :
           market = [pc |-> "idle", catalog |-> catalog, clock |-> 0,
                     ticks |-> 0, cache |-> NoTokenListCache]

MarketNext ==
    \/ MarketTick
    \/ FindTokenCall
    \/ TokenListResolve
    \/ TokenListReject
    \/ FindTokenReturn

SpecMarket == MarketInit /\ [][MarketNext]_vars

FindTokenReturned == market.pc = "returned"

\* The lookup the claim describes: the first entry matching at the
\* highest-priority level, every level compared ignoring case.
FirstIgnoringCase(tokens, term, field) ==
    LET hits == {i \in 1..Len(tokens) :
                     toLowerCase(tokens[i][field]) = toLowerCase(term)}
    IN  IF hits = {} THEN 0 ELSE CHOOSE i \in hits : \A j \in hits : i <= j

LookupIgnoringCase(tokens, term) ==
    LET byId == FirstIgnoringCase(tokens, term, "id")
        bySymbol == FirstIgnoringCase(tokens, term, "symbol")
        byName == FirstIgnoringCase(tokens, term, "name")
    IN  IF byId # 0 THEN tokens[byId]
        ELSE IF bySymbol # 0 THEN tokens[bySymbol]
        ELSE IF byName # 0 THEN tokens[byName]
        ELSE NullToken

\* C7: findToken returns the first entry matching the term ignoring case on
\* id, else on symbol, else on name, and null when nothing matches; an id
\* match wins over a symbol or name match of another entry.
C7_CaseInsensitivePriority ==
    FindTokenReturned =>
        market.out.value = LookupIgnoringCase(market.tokens,
                                              market.searchTerm)

AllIdsLowerCase(tokens) ==
    \A i \in 1..Len(tokens) : tokens[i].id = toLowerCase(tokens[i].id)

\* The claim's lookup is what findToken returns whenever every id of the
\* list is already lower-case.
C7_HoldsForLowerCaseIds ==
    (FindTokenReturned /\ AllIdsLowerCase(market.tokens)) =>
        market.out.value = LookupIgnoringCase(market.tokens,
                                              market.searchTerm)

\* ------------------------------------------------------------------------
\* Further properties of the chain data client (SpecChain)
\* ------------------------------------------------------------------------

HoldersCall ==
    /\ CallIs("getTokenHoldersDistribution")
    /\ isValidSolanaAddress(call.addr)

LargestLookupFails == call.env.largest.script = AllFail

MintLookupFails ==
    \/ call.env.mint.script = AllFail
    \/ call.env.mint.info.state # "mint"

\* C12: getTokenHoldersDistribution returns [] when the supply is 0 and when
\* the largest-accounts or the mint-info lookup fails, never an error and
\* never a percentage over a zero supply; otherwise holder i has
\* percentage = balance_i / (supply / 10^decimals) * 100.
C12_HoldersDistribution ==
    HoldersCall =>
        LET info == call.env.mint.info
            balances == call.env.largest.balances
            holders == call.out.value
        IN  /\ call.out.kind = "ok"
            /\ (LargestLookupFails \/ MintLookupFails) => holders = <<>>
            /\ info.supply = 0 => holders = <<>>
            /\ \A i \in 1..Len(holders) :
                   /\ holders[i].percentage.den # 0
                   /\ holders[i].balance = balances[i]
                   /\ holders[i].percentage.num * info.supply
                        = balances[i] * 100 * Pow10(info.decimals)
                          * holders[i].percentage.den
            /\ (/\ ~LargestLookupFails
                /\ ~MintLookupFails
                /\ call.env.largest.hasValue
                /\ info.supply # 0) => Len(holders) = Len(balances)

\* Both lookups answer, the accounts hold tokens, the supply is 0.
C12_Witness ==
    /\ HoldersCall
    /\ ~LargestLookupFails
    /\ ~MintLookupFails
    /\ call.env.largest.hasValue
    /\ Len(call.env.largest.balances) > 0
    /\ call.env.mint.info.supply = 0
    /\ call.out = Ok(<<>>)

\* ------------------------------------------------------------------------
\* analyzeTrendingTopics applied to bounded article lists
\* ------------------------------------------------------------------------

MaxTopicArticles == 3

TopicArticle(title, summary) == [title |-> title, summary |-> summary]

TopicSamples ==
    { TopicArticle(<<"C", "o", "i", "n">>,
                   << <<"2", "0", "2", "4">>, <<"s", "w", "a", "p">> >>),
      TopicArticle(<<"2", "0", "2", "4">>,
                   << <<"c", "o", "i", "n">>, <<"w", "i", "t", "h">> >>),
      TopicArticle(<<"s", "w", "a", "p">>,
                   << <<"1", "9", "9", "9">>, <<"n", "f", "t">>,
                      <<"0", "1", "2", "3">> >>),
      TopicArticle(<<"m", "i", "n", "t">>,
                   << <<"d", "a", "p", "p">>, <<"d", "e", "f", "i">>,
                      <<"n", "o", "d", "e">> >>),
      TopicArticle(<<"1", "9", "9", "9">>, <<>>),
      TopicArticle(<<"d", "e", "f", "i">>,
                   << <<"d", "e", "f", "i">>, <<"2", "0", "2", "4">> >>) }

TopicsInit ==
    /\ retry = Idle
    /\ tx = Idle
    /\ call = Idle
    /\ market = Idle
    /\ \E articles \in SeqsUpTo(TopicSamples, MaxTopicArticles) :
           news = [pc |-> "idle", articles |-> articles]

AnalyzeTrendingTopics ==
    /\ news.pc = "idle"
    /\ news' = [pc |-> "analyzed", articles |-> news.articles,
                topics |-> analyzeTrendingTopics(news.articles)]
    /\ UNCHANGED <<retry, tx, call, market>>

TopicsNext == AnalyzeTrendingTopics

SpecTopics == TopicsInit /\ [][TopicsNext]_vars

FirstSeen(words, w) ==
    CHOOSE i \in 1..Len(words) :
        words[i] = w /\ \A j \in 1..(i - 1) : words[j] # w

\* v ranks before w: more frequent, or as frequent and encountered first.
RanksBefore(words, v, w) ==
    \/ Frequency(words, v) > Frequency(words, w)
    \/ /\ Frequency(words, v) = Frequency(words, w)
       /\ FirstSeen(words, v) < FirstSeen(words, w)

TopicsRanked(articles, topics) ==
    LET words == CountedWords(articles)
        distinct == {words[i] : i \in 1..Len(words)}
        chosen == {topics[i] : i \in 1..Len(topics)}
    IN  /\ Len(topics) = Min(TopicLimit, Cardinality(distinct))
        /\ chosen \subseteq distinct
        /\ \A i, j \in 1..Len(topics) :
               i < j => RanksBefore(words, topics[i], topics[j])
        /\ \A w \in distinct \ chosen : \A t \in chosen :
               RanksBefore(words, t, w)

\* C20: analyzeTrendingTopics returns at most 5 words, the most frequent
\* lower-cased words longer than 3 letters outside the stop words, by
\* descending frequency, ties in first-encountered order, digit-only words
\* included.
C20_TopicsByFrequencyThenFirstSeen ==
    news.pc = "analyzed" => TopicsRanked(news.articles, news.topics)

\* The ranking holds whenever no counted word is an array index.
C20_HoldsWithoutIndexWords ==
    (/\ news.pc = "analyzed"
     /\ \A i \in 1..Len(CountedWords(news.articles)) :
            ~IsArrayIndex(CountedWords(news.articles)[i]))
        => TopicsRanked(news.articles, news.topics)

\* ------------------------------------------------------------------------
\* Market data client: getTokenPriceData
\* ------------------------------------------------------------------------

UpperChar(c) ==
    CASE c = "a" -> "A"
      [] c = "b" -> "B"
      [] c = "c" -> "C"
      [] OTHER -> c

toUpperCase(s) == [i \in DOMAIN s |-> UpperChar(s[i])]

\* The quote the price endpoint holds for an id: usd, usd_24h_change,
\* usd_7d_change, usd_24h_vol.
QuoteOf(id) ==
    [usd |-> 10 * Len(id) + (IF id = toLowerCase(id) THEN 1 ELSE 2),
     usd_24h_change |-> -Len(id),
     usd_7d_change |-> Len(id),
     usd_24h_vol |-> 1000 * Len(id)]

\* What simple/price may answer: the ids the response has an entry for.
PriceResponses == SUBSET TokenStrings

TokenNotFound == "Token not found. Try using the token's ID, symbol, or name."

PriceDataMissing == "Token price data not found"

HttpError == "HTTP error! status"

TokenListFailed == "Failed to fetch token list"

\* Mutant: a response without the resolved id is not detected.
PriceDataBodyNoMissingCheck(token, httpOk, ids, at) ==
    IF token = NullToken THEN [out |-> Throw(TokenNotFound), rpc |-> 0]
    ELSE IF ~httpOk THEN [out |-> Throw(HttpError), rpc |-> 1]
    ELSE [out |-> Ok([name |-> token.name,
                      symbol |-> toUpperCase(token.symbol),
                      price |-> QuoteOf(token.id).usd,
                      priceChange24h |-> QuoteOf(token.id).usd_24h_change,
                      priceChange7d |-> QuoteOf(token.id).usd_7d_change,
                      volume24h |-> QuoteOf(token.id).usd_24h_vol,
                      lastUpdated |-> at,
                      tokenId |-> token.id]),
          rpc |-> 1]

\* The try block of getTokenPriceData after token = await findToken(tokenId);
\* rpc counts the requests to the price endpoint.
PriceDataBody(token, httpOk, ids, at) ==
    IF token = NullToken THEN [out |-> Throw(TokenNotFound), rpc |-> 0]
    ELSE IF ~httpOk THEN [out |-> Throw(HttpError), rpc |-> 1]
    ELSE IF token.id \notin ids
    THEN [out |-> Throw(PriceDataMissing), rpc |-> 1]
    ELSE [out |-> Ok([name |-> token.name,
                      symbol |-> toUpperCase(token.symbol),
                      price |-> QuoteOf(token.id).usd,
                      priceChange24h |-> QuoteOf(token.id).usd_24h_change,
                      priceChange7d |-> QuoteOf(token.id).usd_7d_change,
                      volume24h |-> QuoteOf(token.id).usd_24h_vol,
                      lastUpdated |-> at,
                      tokenId |-> token.id]),
          rpc |-> 1]

\* throw new Error(`Error fetching token data: ${error.message}`)
PriceError(message) ==
    CASE message = TokenNotFound ->
             "Error fetching token data: Token not found"
      [] message = PriceDataMissing ->
             "Error fetching token data: Token price data not found"
      [] message = HttpError ->
             "Error fetching token data: HTTP error! status"
      [] message = TokenListFailed ->
             "Error fetching token data: Failed to fetch token list"

CatchPriceError(out) ==
    IF out.kind = "throw" THEN Throw(PriceError(out.error)) ELSE out

\* getTokenPriceData as one call: listOk tells whether getTokenList
\* answers with tokens or throws.
getTokenPriceData(tokenId, listOk, tokens, httpOk, ids, at) ==
    IF ~listOk
    THEN [out |-> CatchPriceError(Throw(TokenListFailed)), rpc |-> 0]
    ELSE LET r == PriceDataBody(findToken(tokens, tokenId), httpOk, ids, at)
         IN  [out |-> CatchPriceError(r.out), rpc |-> r.rpc]

\* The frame of a getTokenPriceData call once findToken has answered: the
\* call throws when the token is unknown, else requests the price.
PriceAfterLookup(m, tokens) ==
    LET token == findToken(tokens, m.tokenId)
        base == [MarketIdle(m) EXCEPT !.pc = "pricing"]
                  @@ [tokenId |-> m.tokenId, now |-> m.now,
                      listOk |-> TRUE, tokens |-> tokens, token |-> token,
                      priceFetches |-> 0]
        r == PriceDataBody(token, TRUE, {}, m.clock)
    IN  IF token = NullToken
        THEN [base EXCEPT !.pc = "priceThrown"]
                 @@ [out |-> CatchPriceError(r.out)]
        ELSE base

PriceDataCall ==
    /\ market.pc = "idle"
    /\ \E tokenId \in TokenStrings :
         LET m == MarketIdle(market)
                    @@ [tokenId |-> tokenId, now |-> market.clock]
         IN  market' =
               IF TokenListCacheFresh(market.cache, market.clock)
               THEN PriceAfterLookup(m, market.cache.tokens)
               ELSE [m EXCEPT !.pc = "priceListing"]
    /\ UNCHANGED <<retry, tx, call, news>>

PriceListResolve ==
    /\ market.pc = "priceListing"
    /\ market' =
         PriceAfterLookup(
             [market EXCEPT !.cache = [set |-> TRUE,
                                       tokens |-> market.catalog,
                                       lastCacheUpdate |-> market.now]],
             market.catalog)
    /\ UNCHANGED <<retry, tx, call, news>>

PriceListReject ==
    /\ market.pc = "priceListing"
    /\ market' = [market EXCEPT !.pc = "priceThrown"]
                  @@ [listOk |-> FALSE, tokens |-> <<>>, token |-> NullToken,
                      priceFetches |-> 0,
                      out |-> CatchPriceError(Throw(TokenListFailed))]
    /\ UNCHANGED <<retry, tx, call, news>>

PriceFetchSettle(httpOk, ids) ==
    /\ market.pc = "pricing"
    /\ LET r == PriceDataBody(market.token, httpOk, ids, market.clock)
       IN  market' = [market EXCEPT
                          !.pc = IF r.out.kind = "ok" THEN "priced"
                                 ELSE "priceThrown",
                          !.priceFetches = r.rpc]
                      @@ [httpOk |-> httpOk, ids |-> ids,
                          out |-> CatchPriceError(r.out)]
    /\ UNCHANGED <<retry, tx, call, news>>

PriceFetchResolve == \E ids \in PriceResponses : PriceFetchSettle(TRUE, ids)

PriceFetchReject == PriceFetchSettle(FALSE, {})

PriceDataReturn ==
    /\ market.pc \in {"priced", "priceThrown"}
    /\ market' = MarketIdle(market)
    /\ UNCHANGED <<retry, tx, call, news>>

PriceNext ==
    \/ PriceDataCall
    \/ PriceListResolve
    \/ PriceListReject
    \/ PriceFetchResolve
    \/ PriceFetchReject
    \/ PriceDataReturn

SpecPrice == MarketInit /\ [][PriceNext]_vars

PriceDataDone == market.pc \in {"priced", "priceThrown"}

PriceRequested == PriceDataDone /\ "httpOk" \in DOMAIN market

\* C17: getTokenPriceData resolves the token first; an unknown token makes
\* it throw the token-not-found error with no request to the price
\* endpoint; a response without the resolved id makes it throw the
\* price-data-missing error; otherwise it returns the quote of the resolved
\* id.  The two errors differ, and each is thrown in its own case only.
C17_PriceDataOutcomes ==
    PriceDataDone =>
        /\ market.out.error = PriceError(TokenNotFound)
           <=> (market.listOk /\ market.token = NullToken)
        /\ market.token = NullToken => market.priceFetches = 0
        /\ market.out.error = PriceError(PriceDataMissing)
           <=> /\ PriceRequested
               /\ market.httpOk
               /\ market.token.id \notin market.ids
        /\ (PriceRequested /\ market.httpOk
              /\ market.token.id \in market.ids) =>
               /\ market.out.kind = "ok"
               /\ market.out.value.tokenId = market.token.id
               /\ market.out.value.price = QuoteOf(market.token.id).usd
               /\ market.out.value.priceChange24h
                    = QuoteOf(market.token.id).usd_24h_change
               /\ market.out.value.priceChange7d
                    = QuoteOf(market.token.id).usd_7d_change
               /\ market.out.value.volume24h
                    = QuoteOf(market.token.id).usd_24h_vol
        /\ PriceError(TokenNotFound) # PriceError(PriceDataMissing)

\* The token resolved, the price endpoint answered without its id.
C17_Witness ==
    /\ market.pc = "priceThrown"
    /\ PriceRequested
    /\ market.httpOk
    /\ market.token # NullToken
    /\ market.priceFetches = 1
    /\ market.out.error = PriceError(PriceDataMissing)

\* ------------------------------------------------------------------------
\* Tool adapters: the execute functions of the createTool definitions
\*
\* The result of execute is Ok(value) when it returns value and Throw(e)
\* when the promise it returns rejects with e.
\* ------------------------------------------------------------------------

\* getAllNews as one call.
getAllNews(cache, now, cryptoOk, web3Ok, feed) ==
    IF NewsCacheFresh(cache, now)
    THEN [out |-> Ok(cache.data), rpc |-> 0]
    ELSE LET cryptoNews == fetchNews(cryptoOk, feed.crypto).value
             web3News == fetchNews(web3Ok, feed.web3).value
             allArticles == SortByTime(cryptoNews \o web3News)
         IN  [out |-> Ok(NewsResponse(uniqueArticles(allArticles), now)),
              rpc |-> 2]

SolBalanceFailed ==
    "Failed to fetch SOL balance. Please check the wallet address and try again."

\* Mutant: an exhausted lookup is reported as a balance of 0.
getSolBalanceToolZeroOnNull(a, script, lamports) ==
    LET r == getSolBalance(a, script, lamports)
    IN  IF r.out.kind = "throw" THEN r
        ELSE [out |-> Ok([balance |-> IF r.out.value.null THEN Sol(0)
                                      ELSE r.out.value,
                          error |-> "undefined"]),
              rpc |-> r.rpc]

getSolBalanceTool(a, script, lamports) ==
    LET r == getSolBalance(a, script, lamports)
    IN  IF r.out.kind = "throw" THEN r
        ELSE IF r.out.value.null
        THEN [out |-> Ok([balance |-> NullBalance,
                          error |-> SolBalanceFailed]),
              rpc |-> r.rpc]
        ELSE [out |-> Ok([balance |-> r.out.value, error |-> "undefined"]),
              rpc |-> r.rpc]

getTokenBalanceTool(w, m, rpcOk, accounts) ==
    getTokenBalance(w, m, rpcOk, accounts)

getTokenPriceDataTool(tokenId, listOk, tokens, httpOk, ids, at) ==
    getTokenPriceData(tokenId, listOk, tokens, httpOk, ids, at)

getAllNewsTool(cache, now, cryptoOk, web3Ok, feed) ==
    getAllNews(cache, now, cryptoOk, web3Ok, feed)

\* The optional limit when the caller leaves it out.
NoLimit == 0

\* getRecentTransactions(address, limit ?? 10)
getRecentTransactionsTool(a, limit, env) ==
    getRecentTransactions(a, IF limit = NoLimit THEN DefaultLimit ELSE limit,
                          env)

getOnChainTokenDataTool(a, env) == getOnChainTokenData(a, env)

analyzeTokenRiskTool(a, env) == analyzeTokenRisk(a, env)

ToolIds ==
    {"get-sol-balance", "get-token-balance", "get-token-price-data",
     "get-all-news", "get-recent-transactions", "get-onchain-token-data",
     "analyze-solana-token-risk"}

RiskEnvsBrief ==
    [lcMint : MintEnvsTiny, lcTx : TxEnvsBrief, largest : LargestEnvsBrief,
     hdMint : MintEnvsTiny, tpTx : TxEnvsBrief]

NewsCaches ==
    {NoNewsCache,
     [set |-> TRUE, data |-> NewsResponse(<<>>, 0), timestamp |-> 0]}

\* The agent picks a tool.
ToolInvoke ==
    /\ call.pc = "idle"
    /\ \E id \in ToolIds : call' = [pc |-> "invoked", fn |-> id]
    /\ UNCHANGED <<retry, tx, news, market>>

ExecuteGetSolBalance ==
    /\ Invoked("get-sol-balance")
    /\ \E a \in Addresses, sc \in RetryScripts, lam \in LamportChoices :
          call' = Done("get-sol-balance", a,
                       [script |-> sc, lamports |-> lam],
                       getSolBalanceTool(a, sc, lam))
    /\ UNCHANGED <<retry, tx, news, market>>

ExecuteGetTokenBalance ==
    /\ Invoked("get-token-balance")
    /\ \E w \in AddressesBrief, m \in AddressesBrief, ok \in BOOLEAN,
          accs \in TokenAccountChoices :
          call' = Done("get-token-balance", w,
                       [mint |-> m, rpcOk |-> ok, accounts |-> accs],
                       getTokenBalanceTool(w, m, ok, accs))
    /\ UNCHANGED <<retry, tx, news, market>>

ExecuteGetTokenPriceData ==
    /\ Invoked("get-token-price-data")
    /\ \E id \in TokenStrings, listOk \in BOOLEAN, tokens \in Catalogs,
          httpOk \in BOOLEAN, ids \in {{}, TokenStrings} :
          call' = Done("get-token-price-data", id,
                       [listOk |-> listOk, tokens |-> tokens,
                        httpOk |-> httpOk, ids |-> ids],
                       getTokenPriceDataTool(id, listOk, tokens, httpOk,
                                             ids, 0))
    /\ UNCHANGED <<retry, tx, news, market>>

ExecuteGetAllNews ==
    /\ Invoked("get-all-news")
    /\ \E cache \in NewsCaches, now \in {1, NEWS_CACHE_DURATION},
          cryptoOk \in BOOLEAN, web3Ok \in BOOLEAN, feed \in Feeds :
          call' = Done("get-all-news", "none",
                       [cache |-> cache, now |-> now, cryptoOk |-> cryptoOk,
                        web3Ok |-> web3Ok, feed |-> feed],
                       getAllNewsTool(cache, now, cryptoOk, web3Ok, feed))
    /\ UNCHANGED <<retry, tx, news, market>>

ExecuteGetRecentTransactions ==
    /\ Invoked("get-recent-transactions")
    /\ \E a \in AddressesBrief, lim \in Limits \cup {NoLimit},
          e \in TxEnvsBrief :
          call' = Done("get-recent-transactions", a,
                       [limit |-> lim, tx |-> e],
                       getRecentTransactionsTool(a, lim, e))
    /\ UNCHANGED <<retry, tx, news, market>>

ExecuteGetOnChainTokenData ==
    /\ Invoked("get-onchain-token-data")
    /\ \E a \in AddressesBrief, e \in MintEnvs :
          call' = Done("get-onchain-token-data", a, e,
                       getOnChainTokenDataTool(a, e))
    /\ UNCHANGED <<retry, tx, news, market>>

ExecuteAnalyzeTokenRisk ==
    /\ Invoked("analyze-solana-token-risk")
    /\ \E a \in AddressesBrief, e \in RiskEnvsBrief :
          call' = Done("analyze-solana-token-risk", a, e,
                       analyzeTokenRiskTool(a, e))
    /\ UNCHANGED <<retry, tx, news, market>>

ToolsNext ==
    \/ ToolInvoke
    \/ ExecuteGetSolBalance
    \/ ExecuteGetTokenBalance
    \/ ExecuteGetTokenPriceData
    \/ ExecuteGetAllNews
    \/ ExecuteGetRecentTransactions
    \/ ExecuteGetOnChainTokenData
    \/ ExecuteAnalyzeTokenRisk

SpecTools == RetryInit /\ [][ToolsNext]_vars

SolBalanceToolCall ==
    /\ CallIs("get-sol-balance")
    /\ isValidSolanaAddress(call.addr)

\* C13: on a valid address getSolBalance tries the balance RPC at most 3
\* times; when every attempt fails the tool reports {balance: null, error},
\* never a balance of 0; a balance of 0 is reported only when the RPC
\* answered 0 lamports.
C13_ExhaustionIsNotZero ==
    SolBalanceToolCall =>
        LET result == call.out.value
            zero == ~result.balance.null /\ result.balance.num = 0
        IN  /\ call.out.kind = "ok"
            /\ call.rpc \in 1..DefaultMaxRetries
            /\ call.env.script = AllFail =>
                   /\ call.rpc = DefaultMaxRetries
                   /\ result.balance.null
                   /\ result.error = SolBalanceFailed
                   /\ ~zero
            /\ zero => /\ call.env.script # AllFail
                       /\ call.env.lamports = 0
            /\ call.env.script # AllFail =>
                   /\ result.balance = Sol(call.env.lamports)
                   /\ result.error = "undefined"

\* Every attempt failed although the wallet could hold nothing.
C13_Witness ==
    /\ SolBalanceToolCall
    /\ call.env.script = AllFail
    /\ call.env.lamports = 0
    /\ call.rpc = 3
    /\ call.out.value.balance.null

\* C15: whatever its underlying function does, the execute function of a
\* tool returns (a result or a structured failure object); no exception
\* escapes it.
C15_NoExceptionEscapes ==
    (call.pc = "done" /\ call.fn \in ToolIds) => call.out.kind = "ok"

\* get-all-news and get-recent-transactions and get-token-balance never
\* throw: their functions swallow every failure.
C15_SwallowingToolsReturn ==
    (call.pc = "done"
       /\ call.fn \in {"get-all-news", "get-recent-transactions",
                       "get-token-balance"}) => call.out.kind = "ok"

TokenBalanceLookupFails ==
    \/ ~isValidSolanaAddress(call.addr)
    \/ ~isValidSolanaAddress(call.env.mint)
    \/ ~call.env.rpcOk

\* C14: getTokenBalance returns {balance: 0, decimals: 0} only when the
\* owner has no token account for the mint; a malformed address or a failed
\* lookup is thrown to the caller.
C14_ZeroOnlyWithoutAccount ==
    CallIs("getTokenBalance") =>
        /\ call.out = Ok(ZeroTokenBalance) =>
               /\ ~TokenBalanceLookupFails
               /\ call.env.accounts = <<>>
        /\ TokenBalanceLookupFails => call.out.kind = "throw"

\* Without a failure the result is the first account's amount, or the
\* zero balance when there is no account.
C14_HoldsWithoutFailure ==
    (CallIs("getTokenBalance") /\ ~TokenBalanceLookupFails) =>
        call.out = IF call.env.accounts = <<>> THEN Ok(ZeroTokenBalance)
                   ELSE Ok(TokenAmount(call.env.accounts[1]))

\* ------------------------------------------------------------------------
\* Further properties of the risk engine (SpecChain)
\* ------------------------------------------------------------------------

RiskResult == CallIs("analyzeTokenRisk") /\ call.out.kind = "ok"

SubScoreSum(v) ==
    v.liquidityScore + v.contractRiskScore + v.holderConcentrationScore
        + v.transactionPatternScore

\* C18: overallRiskScore is the mean of the four sub-scores rounded to the
\* nearest integer (a half rounds up), and the four sub-scores of the
\* result are the ones the sub-analyses produced.
C18_OverallIsRoundedMean ==
    RiskResult =>
        LET v == call.out.value
            e == call.env
            lc == analyzeLiquidityAndContract(call.addr, e.lcMint, e.lcTx)
            hd == getTokenHoldersDistribution(call.addr, e.largest, e.hdMint)
            tp == analyzeTransactionPatterns(call.addr, e.tpTx)
        IN  /\ 4 * v.overallRiskScore - 2 <= SubScoreSum(v)
            /\ SubScoreSum(v) <= 4 * v.overallRiskScore + 1
            /\ v.liquidityScore = lc.out.value.liquidityScore
            /\ v.contractRiskScore = lc.out.value.contractRiskScore
            /\ v.holderConcentrationScore
                 = analyzeHolderConcentration(hd.out.value).score
            /\ v.transactionPatternScore = tp.out.value.score

\* A mean ending in .5 was rounded up.
C18_Witness ==
    /\ RiskResult
    /\ SubScoreSum(call.out.value) = 4 * call.out.value.overallRiskScore - 2

Score == 0..100

MinOf(S) == CHOOSE x \in S : \A y \in S : x <= y

MaxOf(S) == CHOOSE x \in S : \A y \in S : y <= x

\* C19: every score of the risk engine lies in 0..100, and
\* overallRiskScore lies between the least and the greatest sub-score.
C19_ScoresInRange ==
    /\ (CallIs("analyzeTransactionPatterns") /\ call.out.kind = "ok") =>
           call.out.value.score \in Score
    /\ (CallIs("analyzeLiquidityAndContract") /\ call.out.kind = "ok") =>
           /\ call.out.value.liquidityScore \in Score
           /\ call.out.value.contractRiskScore \in Score
    /\ RiskResult =>
           LET v == call.out.value
               subs == {v.liquidityScore, v.contractRiskScore,
                        v.holderConcentrationScore,
                        v.transactionPatternScore}
           IN  /\ subs \subseteq Score
               /\ v.overallRiskScore \in Score
               /\ MinOf(subs) <= v.overallRiskScore
               /\ v.overallRiskScore <= MaxOf(subs)

\* The largest deductions on holders and contract, with differing
\* sub-scores.
C19_Witness ==
    /\ RiskResult
    /\ call.out.value.holderConcentrationScore = 30
    /\ call.out.value.contractRiskScore = 10
    /\ call.out.value.transactionPatternScore = 55
    /\ call.out.value.overallRiskScore > 10
    /\ call.out.value.overallRiskScore < 55

\* ------------------------------------------------------------------------
\* The TTL caches (SpecNews, SpecMarket)
\* ------------------------------------------------------------------------

\* A cached response is served only while its entry is younger than the
\* TTL, and a fetch is started only when there is no such entry.
NewsCacheTtl ==
    /\ (news.pc = "returned" /\ ~news.refreshed) =>
           /\ NewsCacheFresh(news.cache, news.now)
           /\ news.out = Ok(news.cache.data)
    /\ news.pc = "fetching" => ~NewsCacheFresh(news.cache, news.now)

\* The call that just returned wrote the cache entry.
NewsCacheWritten ==
    /\ news.pc = "returned"
    /\ news.refreshed
    /\ news.cache.set
    /\ news.cache.timestamp = news.now

\* C16: until the TTL has passed since the refresh a call returns the
\* cached value without a request, from the TTL boundary on it fetches
\* again, and only a successful refresh populates the cache.
C16_TtlCaches ==
    /\ NewsCacheTtl
    /\ NewsCacheWritten => ~(news.cryptoFailed /\ news.web3Failed)

\* The same for the token list: a failed fetch leaves the cache alone.
C16_TokenListTtl ==
    /\ (market.pc = "returned" /\ ~market.fetched) =>
           /\ TokenListCacheFresh(market.cache, market.now)
           /\ market.tokens = market.cache.tokens
    /\ market.pc = "fetching" =>
           ~TokenListCacheFresh(market.cache, market.now)

C16_TokenListWrittenOnSuccess ==
    [][market'.cache # market.cache =>
           market.pc = "fetching" /\ market'.pc = "returned"]_vars

\* ------------------------------------------------------------------------
\* The portfolio-health workflow
\*
\* The four steps run in order; a step whose execute rejects ends the run
\* as failed.  Each step reads the fields its inputSchema declares (the
\* wallet and the outputs of the steps before it); handed names the fields
\* of the object the step before it returned (for the first step, of the
\* workflow input).
\* ------------------------------------------------------------------------

ValidAddress == [base58 |-> TRUE, bytes |-> PUBLIC_KEY_LENGTH]

\* The three mints of tokenBalancesStep: their address, and the first
\* letters of its base58 text, which priceLookupStep passes as tokenId.
PortfolioMints ==
    << [name |-> "USDC", address |-> ValidAddress,
        text |-> <<"E", "P", "j">>],
       [name |-> "USDT", address |-> ValidAddress,
        text |-> <<"E", "s", "9">>],
       [name |-> "WBTC", address |-> ValidAddress,
        text |-> <<"9", "n", "4">>] >>

MintIndex == 1..Len(PortfolioMints)

\* Coin lists the provider may serve: an empty one, one of coins named by
\* id, symbol and name, and one that also lists the lower-cased mint texts
\* as ids.
PortfolioCatalogs ==
    { <<>>,
      << [id |-> <<"b", "c">>, symbol |-> <<"B", "C">>, name |-> <<"B", "C">>],
         [id |-> <<"a">>, symbol |-> <<"a">>, name |-> <<"a">>] >>,
      [i \in MintIndex |->
          [id |-> toLowerCase(PortfolioMints[i].text),
           symbol |-> <<"a">>, name |-> <<"a">>]] }

PortfolioTokenEnvs ==
    { [rpcOk |-> FALSE, accounts |-> <<>>],
      [rpcOk |-> TRUE, accounts |-> <<>>],
      [rpcOk |-> TRUE, accounts |-> <<[amount |-> 2500000, decimals |-> 6]>>] }

PortfolioRiskEnvs ==
    { e \in RiskEnvsBrief :
        /\ e.hdMint = e.lcMint
        /\ e.tpTx = e.lcTx
        /\ e.lcTx.n \in {0, 12}
        /\ e.largest.script = e.lcMint.script }

\* Mutant: a rejected call counts as an entry of zeros (the rejections are
\* dropped, as Promise.allSettled would allow).
AllEntriesRejectionsDropped(results) ==
    Ok([i \in MintIndex |->
          IF results[i].out.kind = "ok" THEN results[i].out.value
          ELSE [balance |-> 0, decimals |-> 0, price |-> 0]])

\* Promise.all over the mints: the first rejection, else the entries.
AllEntries(results) ==
    IF \E i \in MintIndex : results[i].out.kind = "throw"
    THEN LET i == CHOOSE k \in MintIndex :
                      /\ results[k].out.kind = "throw"
                      /\ \A j \in 1..(k - 1) : results[j].out.kind = "ok"
         IN  results[i].out
    ELSE Ok([i \in MintIndex |-> results[i].out.value])

PortfolioRun ==
    /\ call.pc = "idle"
    /\ \E wallet \in AddressesBrief :
           call' = [pc |-> "sol-balance", wf |-> "portfolio-health",
                    handed |-> {"wallet"}, wallet |-> wallet]
    /\ UNCHANGED <<retry, tx, news, market>>

StepFailed(c, error) == c @@ [pc |-> "failed", error |-> error]

\* solBalanceStep
SolBalanceStep ==
    /\ call.pc = "sol-balance"
    /\ call.wf = "portfolio-health"
    /\ \E sc \in ScriptsBrief, lam \in LamportChoices :
         LET r == getSolBalanceTool(call.wallet, sc, lam)
             c == [wf |-> call.wf, wallet |-> call.wallet,
                   solEnv |-> [script |-> sc, lamports |-> lam]]
         IN  call' = IF r.out.kind = "throw"
                     THEN StepFailed(c, r.out.error)
                     ELSE c @@ [pc |-> "token-balances",
                                handed |-> {"sol"},
                                sol |-> r.out.value.balance]
    /\ UNCHANGED <<retry, tx, news, market>>

\* tokenBalancesStep
TokenBalancesStep ==
    /\ call.pc = "token-balances"
    /\ call.wf = "portfolio-health"
    /\ \E envs \in [MintIndex -> PortfolioTokenEnvs] :
         LET results ==
                 [i \in MintIndex |->
                     getTokenBalanceTool(call.wallet,
                                         PortfolioMints[i].address,
                                         envs[i].rpcOk, envs[i].accounts)]
             entries == AllEntries(results)
             c == [wf |-> call.wf, wallet |-> call.wallet, solEnv |-> call.solEnv,
                   sol |-> call.sol, tokenEnvs |-> envs]
         IN  call' = IF entries.kind = "throw"
                     THEN StepFailed(c, entries.error)
                     ELSE c @@ [pc |-> "price-lookup",
                                handed |-> {"tokens"},
                                tokens |-> [i \in MintIndex |->
                                               entries.value[i].balance]]
    /\ UNCHANGED <<retry, tx, news, market>>

\* priceLookupStep: tokenId is the mint.
PriceLookupStep ==
    /\ call.pc = "price-lookup"
    /\ call.wf = "portfolio-health"
    /\ \E listOk \in BOOLEAN, catalog \in PortfolioCatalogs,
          httpOk \in BOOLEAN, full \in BOOLEAN :
         LET ids == IF full THEN {catalog[i].id : i \in 1..Len(catalog)}
                    ELSE {}
             results ==
                 [i \in MintIndex |->
                     getTokenPriceDataTool(PortfolioMints[i].text, listOk,
                                           catalog, httpOk, ids, 0)]
             entries == AllEntries(results)
             c == [wf |-> call.wf, wallet |-> call.wallet, solEnv |-> call.solEnv,
                   sol |-> call.sol, tokenEnvs |-> call.tokenEnvs,
                   tokens |-> call.tokens,
                   priceEnv |-> [listOk |-> listOk, catalog |-> catalog,
                                 httpOk |-> httpOk, ids |-> ids]]
         IN  call' = IF entries.kind = "throw"
                     THEN StepFailed(c, entries.error)
                     ELSE c @@ [pc |-> "risk-analysis",
                                handed |-> {"prices"},
                                prices |-> [i \in MintIndex |->
                                               entries.value[i].price]]
    /\ UNCHANGED <<retry, tx, news, market>>

\* riskStep, and the end of the run.
RiskStep ==
    /\ call.pc = "risk-analysis"
    /\ call.wf = "portfolio-health"
    /\ \E env \in PortfolioRiskEnvs :
       \E results \in {[i \in MintIndex |->
                          analyzeTokenRiskTool(PortfolioMints[i].address,
                                               env)]} :
         LET entries == AllEntries(results)
             c == [wf |-> call.wf, wallet |-> call.wallet, solEnv |-> call.solEnv,
                   sol |-> call.sol, tokenEnvs |-> call.tokenEnvs,
                   tokens |-> call.tokens, priceEnv |-> call.priceEnv,
                   prices |-> call.prices, riskEnv |-> env]
         IN  call' = IF entries.kind = "throw"
                     THEN StepFailed(c, entries.error)
                     ELSE c @@ [pc |-> "success", handed |-> {"risk"},
                                risk |-> entries.value]
    /\ UNCHANGED <<retry, tx, news, market>>

PortfolioNext ==
    \/ PortfolioRun
    \/ SolBalanceStep
    \/ TokenBalancesStep
    \/ PriceLookupStep
    \/ RiskStep

SpecPortfolio == RetryInit /\ [][PortfolioNext]_vars

\* The wallet is valid and the chain reports 0 SOL and no token account
\* for any of the three mints.
EmptyWallet ==
    /\ isValidSolanaAddress(call.wallet)
    /\ call.solEnv.script = <<TRUE>>
    /\ call.solEnv.lamports = 0
    /\ \A i \in MintIndex :
           call.tokenEnvs[i] = [rpcOk |-> TRUE, accounts |-> <<>>]

\* The coin list and the price endpoint answer, the latter with a quote
\* for every listed coin.
MarketAnswers ==
    "priceEnv" \in DOMAIN call =>
        /\ call.priceEnv.listOk
        /\ call.priceEnv.httpOk
        /\ call.priceEnv.ids
             = {call.priceEnv.catalog[i].id :
                    i \in 1..Len(call.priceEnv.catalog)}

\* C11: the run for an empty valid wallet completes the four steps without
\* a failure (the market provider answering) and returns sol = 0, a zero
\* balance for each of the three mints, and a price and a risk entry for
\* each mint.
C11_EmptyWalletCompletes ==
    /\ (call.pc = "failed" /\ "tokenEnvs" \in DOMAIN call /\ MarketAnswers)
           => ~EmptyWallet
    /\ (call.pc = "success" /\ EmptyWallet) =>
           /\ call.sol = Sol(0)
           /\ \A i \in MintIndex : call.tokens[i].num = 0
           /\ DOMAIN call.prices = MintIndex
           /\ DOMAIN call.risk = MintIndex

\* Up to the price lookup the run for an empty wallet cannot fail, and a
\* run that succeeds returns the zero balances.
C11_HoldsUpToPriceLookup ==
    /\ (call.pc = "failed" /\ "tokenEnvs" \in DOMAIN call /\ EmptyWallet)
           => "priceEnv" \in DOMAIN call /\ "riskEnv" \notin DOMAIN call
    /\ (call.pc = "success" /\ EmptyWallet) =>
           /\ call.sol = Sol(0)
           /\ \A i \in MintIndex : call.tokens[i].num = 0

\* ------------------------------------------------------------------------
\* token-insight workflow: fetch-onchain, risk-analysis, fetch-price
\* ------------------------------------------------------------------------

\* Mints a run is started with: the address and the first letters of its
\* text, which priceStep passes as tokenId.
InsightMints ==
    { [address |-> ValidAddress, text |-> <<"E", "P", "j">>],
      [address |-> [base58 |-> FALSE, bytes |-> PUBLIC_KEY_LENGTH],
       text |-> <<"b", "c">>] }

InsightRun ==
    /\ call.pc = "idle"
    /\ \E mint \in InsightMints :
           call' = [pc |-> "fetch-onchain", wf |-> "token-insight",
                    handed |-> {"mint"}, mint |-> mint]
    /\ UNCHANGED <<retry, tx, news, market>>

\* fetchOnChainStep
FetchOnChainStep ==
    /\ call.pc = "fetch-onchain"
    /\ call.wf = "token-insight"
    /\ \E env \in MintEnvsTiny :
         LET r == getOnChainTokenDataTool(call.mint.address, env)
             c == [wf |-> call.wf, mint |-> call.mint, onChainEnv |-> env]
         IN  call' = IF r.out.kind = "throw"
                     THEN StepFailed(c, r.out.error)
                     ELSE c @@ [pc |-> "risk-analysis",
                                handed |-> {"onChain"},
                                onChain |-> r.out.value]
    /\ UNCHANGED <<retry, tx, news, market>>

\* riskStep of token-insight
InsightRiskStep ==
    /\ call.pc = "risk-analysis"
    /\ call.wf = "token-insight"
    /\ \E env \in PortfolioRiskEnvs :
       \E r \in {analyzeTokenRiskTool(call.mint.address, env)} :
         LET c == [wf |-> call.wf, mint |-> call.mint,
                   onChainEnv |-> call.onChainEnv, onChain |-> call.onChain,
                   riskEnv |-> env]
         IN  call' = IF r.out.kind = "throw"
                     THEN StepFailed(c, r.out.error)
                     ELSE c @@ [pc |-> "fetch-price", handed |-> {"risk"},
                                risk |-> r.out.value]
    /\ UNCHANGED <<retry, tx, news, market>>

\* priceStep: tokenId is the mint.
InsightPriceStep ==
    /\ call.pc = "fetch-price"
    /\ call.wf = "token-insight"
    /\ \E listOk \in BOOLEAN, catalog \in PortfolioCatalogs,
          httpOk \in BOOLEAN, full \in BOOLEAN :
         LET ids == IF full THEN {catalog[i].id : i \in 1..Len(catalog)}
                    ELSE {}
             r == getTokenPriceDataTool(call.mint.text, listOk, catalog,
                                        httpOk, ids, 0)
             c == [wf |-> call.wf, mint |-> call.mint,
                   onChainEnv |-> call.onChainEnv, onChain |-> call.onChain,
                   riskEnv |-> call.riskEnv, risk |-> call.risk,
                   priceEnv |-> [listOk |-> listOk, catalog |-> catalog,
                                 httpOk |-> httpOk, ids |-> ids]]
         IN  call' = IF r.out.kind = "throw"
                     THEN StepFailed(c, r.out.error)
                     ELSE c @@ [pc |-> "success", handed |-> {"price"},
                                price |-> r.out.value]
    /\ UNCHANGED <<retry, tx, news, market>>

\* ------------------------------------------------------------------------
\* whale-watch workflow: fetch-tx, filter-whales
\* ------------------------------------------------------------------------

MaxWhaleTxs == 3

WhaleDefaultLimit == 50

WhaleDefaultThreshold == 1000

\* SOL moved by a transaction of the wallet (post - pre of account 0).
WhaleAmounts == {-6, 5, 6}

\* What the chain holds for the wallet: the signature lookup, the SOL moved
\* by each transaction, newest first, and the detail fetch that fails.
WhaleEnvs ==
    { TxEnv(ss, Len(am), 5, 0, 0, fa, 0) @@ [amounts |-> am] :
        ss \in ScriptsBrief, am \in SeqsUpTo(WhaleAmounts, MaxWhaleTxs),
        fa \in {0, 2} }

\* The workflow input after the schema's defaults: limit and threshold
\* are optional (NoLimit and -1 stand for a field left out).
WhaleInput(wallet, limit, threshold) ==
    [wallet |-> wallet,
     limit |-> IF limit = NoLimit THEN WhaleDefaultLimit ELSE limit,
     threshold |-> IF threshold < 0 THEN WhaleDefaultThreshold
                   ELSE threshold]

WhaleRun ==
    /\ call.pc = "idle"
    /\ \E wallet \in AddressesBrief, limit \in {NoLimit, 2},
          threshold \in {-1, 0, 5} :
           call' = [pc |-> "fetch-tx", wf |-> "whale-watch",
                    handed |-> {"wallet", "limit", "threshold"},
                    input |-> WhaleInput(wallet, limit, threshold)]
    /\ UNCHANGED <<retry, tx, news, market>>

\* fetchTxStep
FetchTxStep ==
    /\ call.pc = "fetch-tx"
    /\ call.wf = "whale-watch"
    /\ \E env \in WhaleEnvs :
         LET r == getRecentTransactionsTool(call.input.wallet,
                                            call.input.limit, env)
             c == [wf |-> call.wf, input |-> call.input, txEnv |-> env]
         IN  call' = IF r.out.kind = "throw"
                     THEN StepFailed(c, r.out.error)
                     ELSE c @@ [pc |-> "filter-whales",
                                handed |-> {"txs", "threshold"},
                                txs |-> r.out.value,
                                threshold |-> call.input.threshold]
    /\ UNCHANGED <<retry, tx, news, market>>

\* txs.filter(t => t.amount >= threshold)
bigMoves(txs, threshold) ==
    SelectSeq(txs, LAMBDA t : t.amount >= threshold)

\* whaleFilterStep
WhaleFilterStep ==
    /\ call.pc = "filter-whales"
    /\ call.wf = "whale-watch"
    /\ call' = [wf |-> call.wf, input |-> call.input, txEnv |-> call.txEnv,
                txs |-> call.txs, threshold |-> call.threshold,
                pc |-> "success", handed |-> {"bigMoves"},
                bigMoves |-> bigMoves(call.txs, call.threshold)]
    /\ UNCHANGED <<retry, tx, news, market>>

\* ------------------------------------------------------------------------
\* The three workflows under the sequencer
\* ------------------------------------------------------------------------

WorkflowsNext ==
    \/ PortfolioRun
    \/ SolBalanceStep
    \/ TokenBalancesStep
    \/ PriceLookupStep
    \/ RiskStep
    \/ InsightRun
    \/ FetchOnChainStep
    \/ InsightRiskStep
    \/ InsightPriceStep
    \/ WhaleRun
    \/ FetchTxStep
    \/ WhaleFilterStep

SpecWorkflows == RetryInit /\ [][WorkflowsNext]_vars

\* The steps of each workflow, in the order of its then-chain.
WorkflowSteps(wf) ==
    CASE wf = "portfolio-health" ->
             <<"sol-balance", "token-balances", "price-lookup",
               "risk-analysis">>
      [] wf = "token-insight" ->
             <<"fetch-onchain", "risk-analysis", "fetch-price">>
      [] wf = "whale-watch" -> <<"fetch-tx", "filter-whales">>

WorkflowIds == {"portfolio-health", "token-insight", "whale-watch"}

StepIndex(wf, step) ==
    CHOOSE k \in 1..Len(WorkflowSteps(wf)) : WorkflowSteps(wf)[k] = step

Running(c) == c.pc \notin {"idle", "success", "failed"}

\* The field a step adds to the run when it completes.
StepOutput(wf, step) ==
    CASE wf = "portfolio-health" /\ step = "sol-balance" -> "sol"
      [] wf = "portfolio-health" /\ step = "token-balances" -> "tokens"
      [] wf = "portfolio-health" /\ step = "price-lookup" -> "prices"
      [] wf = "portfolio-health" /\ step = "risk-analysis" -> "risk"
      [] wf = "token-insight" /\ step = "fetch-onchain" -> "onChain"
      [] wf = "token-insight" /\ step = "risk-analysis" -> "risk"
      [] wf = "token-insight" /\ step = "fetch-price" -> "price"
      [] wf = "whale-watch" /\ step = "fetch-tx" -> "txs"
      [] wf = "whale-watch" /\ step = "filter-whales" -> "bigMoves"

\* The outcomes of the tool calls a step made, from the environment the
\* run c met in that step.
InnerOutcomes(wf, step, c) ==
    CASE wf = "portfolio-health" /\ step = "sol-balance" ->
             { getSolBalanceTool(c.wallet, c.solEnv.script,
                                 c.solEnv.lamports).out }
      [] wf = "portfolio-health" /\ step = "token-balances" ->
             { getTokenBalanceTool(c.wallet, PortfolioMints[i].address,
                                   c.tokenEnvs[i].rpcOk,
                                   c.tokenEnvs[i].accounts).out :
                   i \in MintIndex }
      [] wf = "portfolio-health" /\ step = "price-lookup" ->
             { getTokenPriceDataTool(PortfolioMints[i].text,
                                     c.priceEnv.listOk, c.priceEnv.catalog,
                                     c.priceEnv.httpOk, c.priceEnv.ids,
                                     0).out : i \in MintIndex }
      [] wf = "portfolio-health" /\ step = "risk-analysis" ->
             { analyzeTokenRiskTool(PortfolioMints[i].address,
                                    c.riskEnv).out : i \in MintIndex }
      [] wf = "token-insight" /\ step = "fetch-onchain" ->
             { getOnChainTokenDataTool(c.mint.address, c.onChainEnv).out }
      [] wf = "token-insight" /\ step = "risk-analysis" ->
             { analyzeTokenRiskTool(c.mint.address, c.riskEnv).out }
      [] wf = "token-insight" /\ step = "fetch-price" ->
             { getTokenPriceDataTool(c.mint.text, c.priceEnv.listOk,
                                     c.priceEnv.catalog, c.priceEnv.httpOk,
                                     c.priceEnv.ids, 0).out }
      [] wf = "whale-watch" /\ step = "fetch-tx" ->
             { getRecentTransactionsTool(c.input.wallet, c.input.limit,
                                         c.txEnv).out }
      [] wf = "whale-watch" /\ step = "filter-whales" -> {}

\* One step of a run: from step k the run moves to step k + 1 (to success
\* after the last step) exactly when none of the calls of step k threw,
\* and otherwise fails without the output of step k or of a later step.
StepInOrder ==
    /\ call.pc = "idle" =>
           /\ call'.wf \in WorkflowIds
           /\ call'.pc = WorkflowSteps(call'.wf)[1]
    /\ call.pc \in {"success", "failed"} => FALSE
    /\ Running(call) =>
           LET wf    == call.wf
               steps == WorkflowSteps(wf)
               k     == StepIndex(wf, call.pc)
               threw == \E o \in InnerOutcomes(wf, call.pc, call') :
                            o.kind = "throw"
           IN  /\ call'.wf = wf
               /\ threw <=> call'.pc = "failed"
               /\ ~threw => /\ call'.pc = IF k < Len(steps) THEN steps[k + 1]
                                          ELSE "success"
                            /\ StepOutput(wf, call.pc) \in DOMAIN call'
               /\ \A j \in k..Len(steps) :
                      StepOutput(wf, steps[j]) \in DOMAIN call'
                          => j = k /\ ~threw

\* C21: in portfolio-health, token-insight and whale-watch a step starts
\* only when the step before it has completed; when a step, or one of the
\* concurrent calls inside it, throws, no later step runs and the run ends
\* failed without that step's output.
C21_SequentialAllOrNothing == [][StepInOrder]_vars

\* A portfolio run that failed in its third step, price-lookup, after two
\* completed steps: it holds no prices and never met the risk analysis.
C21_Witness ==
    /\ call.pc = "failed"
    /\ call.wf = "portfolio-health"
    /\ "priceEnv" \in DOMAIN call
    /\ "tokens" \in DOMAIN call
    /\ "prices" \notin DOMAIN call
    /\ "riskEnv" \notin DOMAIN call

\* ------------------------------------------------------------------------
\* whale-watch: the transfers reported
\* ------------------------------------------------------------------------

WhaleWatchDone == call.pc = "success" /\ call.wf = "whale-watch"

\* C22: a completed whale-watch run returns, in their fetched order,
\* exactly the fetched transactions whose amount exceeds the threshold; a
\* transaction whose amount does not exceed it is not returned.
C22_WhalesAboveThreshold ==
    WhaleWatchDone =>
        call.bigMoves
            = SelectSeq(call.txs, LAMBDA t : t.amount > call.threshold)

\* What the filter keeps is the transactions at or above the threshold.
C22_KeepsAtOrAbove ==
    WhaleWatchDone =>
        /\ call.bigMoves
               = SelectSeq(call.txs, LAMBDA t : ~(t.amount < call.threshold))
        /\ \A i \in 1..Len(call.bigMoves) :
               call.bigMoves[i].amount >= call.threshold

\* ------------------------------------------------------------------------
\* analyzeHolderConcentration on holder lists
\* ------------------------------------------------------------------------

MaxHolders == 12

\* Holder lists as getTokenLargestAccounts orders them, largest first: a
\* top holder of top percent followed by k holders of rest percent each.
HolderLists ==
    { [i \in 1..(1 + k) |->
          [address |-> i, balance |-> IF i = 1 THEN top ELSE rest,
           percentage |-> [num |-> IF i = 1 THEN top ELSE rest, den |-> 1]]] :
        top \in {20, 21, 50, 51, 60}, k \in 0..(MaxHolders - 1),
        rest \in {0, 2, 5, 8} }
    \cup {<<>>}

AnalyzeHolderConcentration ==
    /\ call.pc = "idle"
    /\ \E holders \in HolderLists :
           call' = [pc |-> "analyzed", holders |-> holders,
                    result |-> analyzeHolderConcentration(holders)]
    /\ UNCHANGED <<retry, tx, news, market>>

HoldersNext == AnalyzeHolderConcentration

SpecHolders == RetryInit /\ [][HoldersNext]_vars

\* The percentage of holder i, in percent.
Percent(holders, i) == holders[i].percentage.num \div holders[i].percentage.den

LargestPercent(holders) ==
    MaxOf({Percent(holders, i) : i \in 1..Len(holders)})

Top10Percent(holders) ==
    SumSeq([i \in 1..Min(10, Len(holders)) |-> Percent(holders, i)])

\* C23: an empty list scores 0 with the one factor "No holder data
\* available"; otherwise the score is 100 - P1 - P10, P1 being 40 (with the
\* extreme-concentration factor) when the largest holder owns more than
\* 50 percent, 25 when more than 20, else 0, and P10 being 30 when the ten
\* largest own more than 90 percent together, 20 when more than 70, else 0.
C23_HolderConcentration ==
    call.pc = "analyzed" =>
        LET h   == call.holders
            p1  == IF LargestPercent(h) > 50 THEN 40
                   ELSE IF LargestPercent(h) > 20 THEN 25 ELSE 0
            p10 == IF Top10Percent(h) > 90 THEN 30
                   ELSE IF Top10Percent(h) > 70 THEN 20 ELSE 0
            extreme == \E i \in 1..Len(call.result.factors) :
                           call.result.factors[i]
                               = "Extreme concentration: Top holder owns"
        IN  IF h = <<>>
            THEN call.result
                     = [score |-> 0, factors |-> <<"No holder data available">>]
            ELSE /\ call.result.score = 100 - p1 - p10
                 /\ extreme <=> p1 = 40

\* The list of 60 percent and nine holders of 5 percent scores
\* 100 - 40 - 30 = 30 with the extreme-concentration factor.
C23_Witness ==
    /\ call.pc = "analyzed"
    /\ Len(call.holders) = 10
    /\ Percent(call.holders, 1) = 60
    /\ \A i \in 2..10 : Percent(call.holders, i) = 5
    /\ call.result.score = 30
    /\ call.result.factors[1] = "Extreme concentration: Top holder owns"

\* ------------------------------------------------------------------------
\* analyzeTransactionPatterns: the penalties
\* ------------------------------------------------------------------------

\* The transactions the analysis received from getRecentTransactions.
PatternTransactions ==
    getRecentTransactions(call.addr, RiskTxLimit, call.env.tx).out.value

NumberOf(txs, field, value) ==
    Cardinality({i \in 1..Len(txs) : txs[i][field] = value})

\* The observed timespan in seconds between the newest and the oldest
\* transaction (0 when a block time is unknown).
ObservedSpan(txs) ==
    IF txs[1].timestamp = NullTime \/ txs[Len(txs)].timestamp = NullTime
    THEN 0
    ELSE txs[1].timestamp - txs[Len(txs)].timestamp

\* C24: with fewer than 10 transactions returned the score is 80 with
\* exactly one factor; otherwise it is 100, less 20 when more than 20
\* percent of the transactions failed, less 15 when more than 80 percent
\* are "Token Transfer", less 10 when there are more than 0.1 transactions
\* per second of the observed timespan, with one factor per penalty.
C24_TransactionPatternPenalties ==
    CallIs("analyzeTransactionPatterns") =>
        LET txs == PatternTransactions
            n   == Len(txs)
            failedPenalty ==
                10 * NumberOf(txs, "status", "Failed") > 2 * n
            transferPenalty ==
                10 * NumberOf(txs, "type", "Token Transfer") > 8 * n
            frequencyPenalty ==
                ObservedSpan(txs) > 0 /\ 10 * n > ObservedSpan(txs)
            penalties ==
                {p \in {<<1, failedPenalty>>, <<2, transferPenalty>>,
                        <<3, frequencyPenalty>>} : p[2]}
        IN  /\ call.out.kind = "ok"
            /\ IF n < 10
               THEN /\ call.out.value.score = 80
                    /\ Len(call.out.value.factors) = 1
               ELSE /\ call.out.value.score
                         = 100 - (IF failedPenalty THEN 20 ELSE 0)
                               - (IF transferPenalty THEN 15 ELSE 0)
                               - (IF frequencyPenalty THEN 10 ELSE 0)
                    /\ Len(call.out.value.factors) = Cardinality(penalties)

\* Twelve transactions five seconds apart, three of them failed and all of
\* them token transfers: the three penalties apply and the score is 55.
C24_Witness ==
    /\ CallIs("analyzeTransactionPatterns")
    /\ Len(PatternTransactions) = 12
    /\ call.out.value.score = 55
    /\ Len(call.out.value.factors) = 3

\* ------------------------------------------------------------------------
\* The authority penalties in the composite
\* ------------------------------------------------------------------------

\* analyzeTokenRisk was called for a mint whose mint authority and freeze
\* authority are both set.
BothAuthoritiesSet ==
    /\ CallIs("analyzeTokenRisk")
    /\ call.env.lcMint.info.state = "mint"
    /\ call.env.lcMint.info.mintAuthority
    /\ call.env.lcMint.info.freezeAuthority

\* C25: with both authorities set, whatever the other sub-scores are,
\* analyzeTokenRisk returns an overallRiskScore below 80.
C25_AuthoritiesDominate ==
    (BothAuthoritiesSet /\ call.out.kind = "ok") =>
        call.out.value.overallRiskScore < 80

\* Both authorities set and every other sub-score at 100: the composite is
\* round(310 / 4) = 78.
C25_Witness ==
    /\ BothAuthoritiesSet
    /\ call.out.kind = "ok"
    /\ call.out.value.liquidityScore = 100
    /\ call.out.value.holderConcentrationScore = 100
    /\ call.out.value.transactionPatternScore = 100
    /\ call.out.value.contractRiskScore = 10
    /\ call.out.value.overallRiskScore = 78

\* ------------------------------------------------------------------------
\* Overlapping getAllNews calls
\*
\* Callers on the one event loop: a call runs to its await, the loop takes
\* up another call or advances the clock, and a pending call resumes when
\* its two fetches have settled.  news holds the module state (the clock
\* and newsCache), call the frame of each caller.
\* ------------------------------------------------------------------------

MaxCallers == 2

MaxOverlapTicks == 2

Callers == 1..MaxCallers

\* What the sources serve while the calls run.
OverlapFeeds ==
    { [crypto |-> <<Article(<<"A", "b">>, "u1", 3)>>,
       web3 |-> <<Article(<<"c">>, "u2", 1)>>],
      [crypto |-> <<>>, web3 |-> <<Article(<<"c">>, "u2", 1)>>] }

OverlapInit ==
    /\ retry = Idle
    /\ tx = Idle
    /\ market = Idle
    /\ call = [p \in Callers |-> Idle]
    /\ news = [pc |-> "idle", clock |-> 0, ticks |-> 0,
               cache |-> NoNewsCache]

\* Date.now() advances between the steps of the event loop.
OverlapTick ==
    /\ news.ticks < MaxOverlapTicks
    /\ \E d \in {1, NEWS_CACHE_DURATION} :
           news' = [news EXCEPT !.clock = @ + d, !.ticks = @ + 1]
    /\ UNCHANGED <<retry, tx, call, market>>

\* getAllNews up to its await, for caller p.
OverlapGetAllNewsCall(p) ==
    /\ call[p].pc = "idle"
    /\ call' = [call EXCEPT ![p] =
                  IF NewsCacheFresh(news.cache, news.clock)
                  THEN [pc |-> "returned", now |-> news.clock,
                        refreshed |-> FALSE, out |-> Ok(news.cache.data)]
                  ELSE [pc |-> "fetching", now |-> news.clock,
                        refreshed |-> TRUE]]
    /\ UNCHANGED <<retry, tx, news, market>>

\* The continuation of caller p after await Promise.all([...]): build the
\* response and store it with the time the call started.
OverlapGetAllNewsResume(p) ==
    /\ call[p].pc = "fetching"
    /\ \E feed \in OverlapFeeds, cryptoOk \in BOOLEAN, web3Ok \in BOOLEAN :
         LET allArticles ==
                 SortByTime(fetchNews(cryptoOk, feed.crypto).value
                            \o fetchNews(web3Ok, feed.web3).value)
             response ==
                 NewsResponse(uniqueArticles(allArticles), news.clock)
         IN  /\ news' = [news EXCEPT !.cache =
                            [set |-> TRUE, data |-> response,
                             timestamp |-> call[p].now]]
             /\ call' = [call EXCEPT ![p] =
                            [pc |-> "returned", now |-> call[p].now,
                             refreshed |-> TRUE, out |-> Ok(response)]]
    /\ UNCHANGED <<retry, tx, market>>

OverlapCall == \E p \in Callers : OverlapGetAllNewsCall(p)

OverlapResume == \E p \in Callers : OverlapGetAllNewsResume(p)

OverlapNext ==
    \/ OverlapTick
    \/ OverlapCall
    \/ OverlapResume

SpecOverlap == OverlapInit /\ [][OverlapNext]_vars

\* The callers whose refresh fetch is pending.
Refreshing == {p \in Callers : call[p].pc = "fetching"}

\* C26: at most one refresh of the news cache is in flight: a call that
\* arrives while the refresh of an earlier call is pending starts no second
\* fetch.
C26_OneRefreshInFlight == Cardinality(Refreshing) <= 1

\* Each refresh that completed wrote what it fetched, whatever was pending.
C26_EveryRefreshWrites ==
    [][\A p \in Callers :
          (call[p].pc = "fetching" /\ call'[p].pc = "returned")
              => /\ news'.cache.set
                 /\ news'.cache.timestamp = call[p].now
                 /\ news'.cache.data = call'[p].out.value]_vars

\* C27: the timestamp of the news cache never moves backwards: a refresh
\* that started earlier never overwrites the entry of one that started
\* later.
C27_TimestampMonotone ==
    [][news.cache.set =>
          /\ news'.cache.set
          /\ news'.cache.timestamp >= news.cache.timestamp]_vars

\* The entry is never newer than the clock, and a caller served from the
\* cache got an entry younger than the TTL.
C27_TimestampWithinClock ==
    /\ news.cache.set => news.cache.timestamp <= news.clock
    /\ \A p \in Callers :
           (call[p].pc = "returned" /\ ~call[p].refreshed)
               => call[p].now - NEWS_CACHE_DURATION < news.cache.timestamp

\* ------------------------------------------------------------------------
\* What the deduplication drops
\* ------------------------------------------------------------------------

InSeq(s, a) == \E i \in 1..Len(s) : s[i] = a

\* C28: every article of the merged, sorted list that is missing from the
\* returned articles has the title (ignoring case) or the URL of an article
\* that is returned.
C28_NoDistinctStoryLost ==
    NewsRefreshed =>
        LET kept == news.out.value.articles
        IN  \A i \in 1..Len(news.allArticles) :
                ~InSeq(kept, news.allArticles[i]) =>
                    \E j \in 1..Len(kept) :
                        SameStory(kept[j], news.allArticles[i])

\* Every dropped article has the title or the URL of an article before it
\* in the merged list, returned or not.
C28_DroppedMatchesEarlier ==
    NewsRefreshed =>
        LET kept == news.out.value.articles
        IN  \A i \in 1..Len(news.allArticles) :
                ~InSeq(kept, news.allArticles[i]) =>
                    \E j \in 1..(i - 1) :
                        SameStory(news.allArticles[j], news.allArticles[i])

\* ------------------------------------------------------------------------
\* The schemas along the then-chains
\* ------------------------------------------------------------------------

\* The fields a step's inputSchema requires (a field with a default or of
\* type any may be left out).
RequiredFields(wf, step) ==
    CASE wf = "portfolio-health" /\ step = "sol-balance" -> {"wallet"}
      [] wf = "portfolio-health" /\ step = "token-balances" ->
             {"wallet", "sol"}
      [] wf = "portfolio-health" /\ step = "price-lookup" ->
             {"wallet", "sol", "tokens"}
      [] wf = "portfolio-health" /\ step = "risk-analysis" ->
             {"wallet", "sol", "tokens", "prices"}
      [] wf = "token-insight" /\ step = "fetch-onchain" -> {"mint"}
      [] wf = "token-insight" /\ step = "risk-analysis" -> {"mint"}
      [] wf = "token-insight" /\ step = "fetch-price" -> {"mint"}
      [] wf = "whale-watch" /\ step = "fetch-tx" -> {"wallet"}
      [] wf = "whale-watch" /\ step = "filter-whales" -> {"txs"}

\* The fields of the outputSchema a workflow declares.
WorkflowOutputFields(wf) ==
    CASE wf = "portfolio-health" -> {"sol", "tokens", "prices", "risk"}
      [] wf = "token-insight" -> {"onChain", "risk", "price"}
      [] wf = "whale-watch" -> {"bigMoves"}

\* C29: the object handed to a step (the output of the step before it, the
\* workflow input for the first step) holds every field the step's input
\* schema requires, and the output of the last step holds every field of
\* the workflow's output schema.
C29_RequiredFieldsHanded ==
    /\ Running(call) => RequiredFields(call.wf, call.pc) \subseteq call.handed
    /\ call.pc = "success" =>
           WorkflowOutputFields(call.wf) \subseteq call.handed

\* The chain of whale-watch is consistent, and so is the first step of
\* each workflow.
C29_WhaleWatchFieldsHanded ==
    /\ (Running(call) /\ (call.wf = "whale-watch"
                          \/ call.pc = WorkflowSteps(call.wf)[1]))
           => RequiredFields(call.wf, call.pc) \subseteq call.handed
    /\ (call.pc = "success" /\ call.wf = "whale-watch")
           => WorkflowOutputFields(call.wf) \subseteq call.handed

\* ------------------------------------------------------------------------
\* withRetry over every budget
\* ------------------------------------------------------------------------

RetryFinished == RetryActive /\ retry.pc \in {"returned", "thrown"}

\* C30: for every maxRetries, zero and negative ones included, a finished
\* withRetry has invoked the operation at least once, and it returned the
\* value of one of its invocations or threw the error of one of them,
\* never null.
C30_ResultComesFromOperation ==
    RetryFinished =>
        /\ retry.calls >= 1
        /\ retry.pc = "returned" => retry.value \in 1..retry.calls
        /\ retry.pc = "thrown" =>
               /\ retry.thrown # NullError
               /\ retry.thrown \in 1..retry.calls

\* With a budget of at least 1 it does.
C30_HoldsForPositiveBudget ==
    (RetryFinished /\ retry.maxRetries >= 1) =>
        /\ retry.calls >= 1
        /\ retry.pc = "returned" => retry.value = retry.calls
        /\ retry.pc = "thrown" => retry.thrown = retry.calls

====
